---------------------------- MODULE Spec2Model ----------------------------
(***************************************************************************)
(* UWB trilateration portfolio (src/UWB_GUI): the closed-form solver, the  *)
(* anchor selection of the GUIs, the anchor manager, the live poll loop,   *)
(* the three error experiments and the distance server.                    *)
(*                                                                         *)
(* Numbers.  The programs compute in binary64.  The model computes in      *)
(* exact arithmetic over a grid on which every sum, difference and product *)
(* of the code is exact in binary64 as well:                               *)
(*   - a coordinate is an integer number of half metres (the layouts use   *)
(*     multiples of 0.5 m), so [6, 7.5] is <<12, 15>>;                      *)
(*   - a distance d is carried as sgn(d) * (2d)^2, its signed square in    *)
(*     half metres: the solver reads a distance only through d**2, the     *)
(*     selections only through comparisons, and the signed square keeps    *)
(*     both exactly, also for the irrational values np.linalg.norm gives;  *)
(*   - the quotient of the solver is a normalised fraction <<n, d>>;       *)
(*   - the error experiments add noise to a distance and carry it as a     *)
(*     sum of integer multiples of square roots (Distances with noise).    *)
(* A Python list is a sequence; Python index i is position i + 1.          *)
(* None is <<>> and a present value v is <<v>>.                            *)
(***************************************************************************)
EXTENDS Integers, Sequences, FiniteSets, TLC

VARIABLES
    prog,               \* the entry point that is running
    args, ret,          \* solver driver: the call's arguments and results
    sel_in, sel_out,    \* selection driver: distance list and both results
    anchors,            \* global anchors of the running program
    distances,          \* manager: global list; star GUI: the local list
    distance_entries,   \* manager: text of the Entry widgets
    circles,            \* drawn circle patches
    star, star_label,   \* estimate marker and its coordinate label
    dashed_line, distance_text,    \* manager: reference-line marker
    corridor_line, corridor_text,  \* star GUI / poll loop: reference line
    result_label,       \* manager: text of the result label
    received_label,     \* poll loop: text of the received label
    selected_index,     \* manager: anchor being dragged
    star_pos,           \* star GUI: the draggable position
    selected_star,      \* star GUI: star being dragged
    latest_data,        \* distance server: last posted readings
    d_index,            \* manager: local d_index of the last update_position
    closest_valid,      \* star GUI: local closest_valid of the last update
    count, circle_color,\* star GUI: locals of the last update_circles
    text_labels,        \* star GUI / poll loop: distance labels of the circles
    response,           \* distance server: its last HTTP response
    solver_call,        \* the last call of the solver made by a program
    exc,                \* exception raised inside the last handler ("none")
    sel_pre, sel_post,  \* lists right before / after the last selection
    edits,              \* number of drag and typing events so far
    case, trials,       \* error experiments: arguments of the run
    noise_levels,       \* sweep: its noise_levels argument
    true_pos, true_distances,  \* error experiments: ground truth
    noisy,              \* error experiments: local of the last trial
    position,           \* error experiments: pos of the last trial
    errors,             \* error experiments: local list of errors
    mean_errors,        \* sweep: local list of means
    level, trial,       \* iterations done of the level and trial loops
    pc,                 \* error experiments: position in the function
    drawn,              \* what the random module gave the last trial
    log,                \* the trials so far: level, bounds, outcome
    lock,               \* distance server: the thread holding lock, or 0
    threads,            \* distance server: the request each thread handles
    writes,             \* threads in the order they assigned latest_data
    completed,          \* threads in the order their responses went out
    poll_thread         \* poll loop: whether its thread is still in the
                        \* while loop, and what its last GET gave

vars == <<prog, args, ret, sel_in, sel_out, anchors, distances,
          distance_entries, circles, star, star_label, dashed_line,
          distance_text, corridor_line, corridor_text, result_label,
          received_label, selected_index, star_pos, selected_star,
          latest_data, d_index, closest_valid, count, circle_color,
          text_labels, response, solver_call, exc, sel_pre, sel_post, edits,
          case, trials, noise_levels, true_pos, true_distances, noisy,
          position, errors, mean_errors, level, trial, pc, drawn, log,
          lock, threads, writes, completed, poll_thread>>

serverVars == <<lock, threads, writes, completed>>

simVars ==
    <<case, trials, noise_levels, true_pos, true_distances, noisy,
      position, errors, mean_errors, level, trial, pc, drawn, log>>

None == <<>>
Some(v) == <<v>>

\* No poll thread was started.
NoPoll == poll_thread = None

\* The distance server is not modelled thread by thread.
NoServer == lock = 0 /\ threads = <<>> /\ writes = <<>> /\ completed = <<>>

\* No error experiment is running.
NoSim ==
    /\ case = 0 /\ trials = 0 /\ noise_levels = <<>>
    /\ true_pos = <<0, 0>> /\ true_distances = <<>> /\ noisy = <<>>
    /\ position = None /\ errors = <<>> /\ mean_errors = <<>>
    /\ level = 0 /\ trial = 0 /\ pc = "" /\ drawn = None /\ log = <<>>

----------------------------------------------------------------------------
(* Exact arithmetic *)

Abs(n) == IF n < 0 THEN -n ELSE n

RECURSIVE GCD(_, _)
GCD(a, b) == IF b = 0 THEN a ELSE GCD(b, a % b)

\* Python's true division n / d (d # 0), exact: the normalised fraction.
Frac(n, d) ==
    LET g == GCD(Abs(n), Abs(d))
        s == IF d < 0 THEN -1 ELSE 1
    IN  <<(s * n) \div g, (s * d) \div g>>

FSub(f, g) == Frac(f[1] * g[2] - g[1] * f[2], f[2] * g[2])
FAdd(f, g) == Frac(f[1] * g[2] + g[1] * f[2], f[2] * g[2])
FAbs(f) == <<Abs(f[1]), f[2]>>
FLess(f, g) == f[1] * g[2] < g[1] * f[2]
FInt(n) == <<n, 1>>

\* d**2 of a distance carried as its signed square.
Sq(d) == Abs(d)

\* The distance of m whole metres (m may be negative).
Metres(m) == IF m < 0 THEN -(4 * m * m) ELSE 4 * m * m

\* np.linalg.norm(a - b) for two points, as a distance.
Norm(a, b) == (a[1] - b[1]) * (a[1] - b[1]) + (a[2] - b[2]) * (a[2] - b[2])

\* What a call gives: a returned value or a raised exception (type, str(e)).
NoExc == [type |-> "none", msg |-> ""]
Exc(t, m) == [type |-> t, msg |-> m]
Return(v) == [raised |-> NoExc, value |-> Some(v)]
Raise(e) == [raised |-> e, value |-> None]
Raised(r) == r.raised # NoExc

\* raise ValueError("Anchors are aligned")
AnchorsAligned == Exc("ValueError", "Anchors are aligned")

----------------------------------------------------------------------------
(* The solver, one definition per copy in the repository *)

\* A plausible slip: the determinant with the wrong sign between products.
trilateration_3anchors_wrongdet(p1, d1, p2, d2, p3, d3) ==
    LET x1 == p1[1]  y1 == p1[2]
        x2 == p2[1]  y2 == p2[2]
        x3 == p3[1]  y3 == p3[2]
        A == 2 * (x2 - x1)
        B == 2 * (y2 - y1)
        C == Sq(d1) - Sq(d2) - x1*x1 + x2*x2 - y1*y1 + y2*y2
        D == 2 * (x3 - x1)
        E == 2 * (y3 - y1)
        F == Sq(d1) - Sq(d3) - x1*x1 + x3*x3 - y1*y1 + y3*y3
        denominator == A * E + B * D
    IN  IF denominator = 0
        THEN Raise(AnchorsAligned)
        ELSE Return(<<Frac(C * E - B * F, denominator),
                      Frac(A * F - C * D, denominator)>>)

\* A plausible slip: F computed with d2 in place of d3.
trilateration_3anchors_Fd2(p1, d1, p2, d2, p3, d3) ==
    LET x1 == p1[1]  y1 == p1[2]
        x2 == p2[1]  y2 == p2[2]
        x3 == p3[1]  y3 == p3[2]
        A == 2 * (x2 - x1)
        B == 2 * (y2 - y1)
        C == Sq(d1) - Sq(d2) - x1*x1 + x2*x2 - y1*y1 + y2*y2
        D == 2 * (x3 - x1)
        E == 2 * (y3 - y1)
        F == Sq(d1) - Sq(d2) - x1*x1 + x3*x3 - y1*y1 + y3*y3
        denominator == A * E - B * D
    IN  IF denominator = 0
        THEN Raise(AnchorsAligned)
        ELSE Return(<<Frac(C * E - B * F, denominator),
                      Frac(A * F - C * D, denominator)>>)

\* uwb3anchorstest.py
trilateration_3anchors(p1, d1, p2, d2, p3, d3) ==
    LET x1 == p1[1]  y1 == p1[2]
        x2 == p2[1]  y2 == p2[2]
        x3 == p3[1]  y3 == p3[2]
        A == 2 * (x2 - x1)
        B == 2 * (y2 - y1)
        C == Sq(d1) - Sq(d2) - x1*x1 + x2*x2 - y1*y1 + y2*y2
        D == 2 * (x3 - x1)
        E == 2 * (y3 - y1)
        F == Sq(d1) - Sq(d3) - x1*x1 + x3*x3 - y1*y1 + y3*y3
        denominator == A * E - B * D
    IN  IF denominator = 0
        THEN Raise(AnchorsAligned)
        ELSE Return(<<Frac(C * E - B * F, denominator),
                      Frac(A * F - C * D, denominator)>>)

\* A plausible slip: y computed with the numerator of x.
trilateration_auto_samexy(p1, d1, p2, d2, p3, d3) ==
    LET x1 == p1[1]  y1 == p1[2]
        x2 == p2[1]  y2 == p2[2]
        x3 == p3[1]  y3 == p3[2]
        A == 2 * (x2 - x1)
        B == 2 * (y2 - y1)
        C == Sq(d1) - Sq(d2) - x1*x1 + x2*x2 - y1*y1 + y2*y2
        D == 2 * (x3 - x1)
        E == 2 * (y3 - y1)
        F == Sq(d1) - Sq(d3) - x1*x1 + x3*x3 - y1*y1 + y3*y3
        denominator == A * E - B * D
    IN  IF denominator = 0
        THEN Raise(AnchorsAligned)
        ELSE Return(<<Frac(C * E - B * F, denominator),
                      Frac(C * E - B * F, denominator)>>)

\* auto_distances.py
trilateration_3anchors_auto(p1, d1, p2, d2, p3, d3) ==
    LET x1 == p1[1]  y1 == p1[2]
        x2 == p2[1]  y2 == p2[2]
        x3 == p3[1]  y3 == p3[2]
        A == 2 * (x2 - x1)
        B == 2 * (y2 - y1)
        C == Sq(d1) - Sq(d2) - x1*x1 + x2*x2 - y1*y1 + y2*y2
        D == 2 * (x3 - x1)
        E == 2 * (y3 - y1)
        F == Sq(d1) - Sq(d3) - x1*x1 + x3*x3 - y1*y1 + y3*y3
        denominator == A * E - B * D
    IN  IF denominator = 0
        THEN Raise(AnchorsAligned)
        ELSE Return(<<Frac(C * E - B * F, denominator),
                      Frac(A * F - C * D, denominator)>>)

\* UWB_error_test_boxplot.py
trilateration_boxplot(p1, d1, p2, d2, p3, d3) ==
    LET x1 == p1[1]  y1 == p1[2]
        x2 == p2[1]  y2 == p2[2]
        x3 == p3[1]  y3 == p3[2]
        A == 2 * (x2 - x1)
        B == 2 * (y2 - y1)
        C == Sq(d1) - Sq(d2) - x1*x1 + x2*x2 - y1*y1 + y2*y2
        D == 2 * (x3 - x1)
        E == 2 * (y3 - y1)
        F == Sq(d1) - Sq(d3) - x1*x1 + x3*x3 - y1*y1 + y3*y3
        denominator == A * E - B * D
    IN  IF denominator = 0
        THEN Raise(AnchorsAligned)
        ELSE Return(<<Frac(C * E - B * F, denominator),
                      Frac(A * F - C * D, denominator)>>)

\* A plausible slip: the second distance used where the first belongs in F.
trilateration_line_wrongF(p1, d1, p2, d2, p3, d3) ==
    LET x1 == p1[1]  y1 == p1[2]
        x2 == p2[1]  y2 == p2[2]
        x3 == p3[1]  y3 == p3[2]
        A == 2 * (x2 - x1)
        B == 2 * (y2 - y1)
        C == Sq(d1) - Sq(d2) - x1*x1 + x2*x2 - y1*y1 + y2*y2
        D == 2 * (x3 - x1)
        E == 2 * (y3 - y1)
        F == Sq(d2) - Sq(d3) - x1*x1 + x3*x3 - y1*y1 + y3*y3
        denominator == A * E - B * D
    IN  IF denominator = 0
        THEN Raise(AnchorsAligned)
        ELSE Return(<<Frac(C * E - B * F, denominator),
                      Frac(A * F - C * D, denominator)>>)

\* UWB_error_test_line.py
trilateration_line(p1, d1, p2, d2, p3, d3) ==
    LET x1 == p1[1]  y1 == p1[2]
        x2 == p2[1]  y2 == p2[2]
        x3 == p3[1]  y3 == p3[2]
        A == 2 * (x2 - x1)
        B == 2 * (y2 - y1)
        C == Sq(d1) - Sq(d2) - x1*x1 + x2*x2 - y1*y1 + y2*y2
        D == 2 * (x3 - x1)
        E == 2 * (y3 - y1)
        F == Sq(d1) - Sq(d3) - x1*x1 + x3*x3 - y1*y1 + y3*y3
        denominator == A * E - B * D
    IN  IF denominator = 0
        THEN Raise(AnchorsAligned)
        ELSE Return(<<Frac(C * E - B * F, denominator),
                      Frac(A * F - C * D, denominator)>>)

\* UWB_errors_on_map.py
trilateration_map(p1, d1, p2, d2, p3, d3) ==
    LET x1 == p1[1]  y1 == p1[2]
        x2 == p2[1]  y2 == p2[2]
        x3 == p3[1]  y3 == p3[2]
        A == 2 * (x2 - x1)
        B == 2 * (y2 - y1)
        C == Sq(d1) - Sq(d2) - x1*x1 + x2*x2 - y1*y1 + y2*y2
        D == 2 * (x3 - x1)
        E == 2 * (y3 - y1)
        F == Sq(d1) - Sq(d3) - x1*x1 + x3*x3 - y1*y1 + y3*y3
        denominator == A * E - B * D
    IN  IF denominator = 0
        THEN Raise(AnchorsAligned)
        ELSE Return(<<Frac(C * E - B * F, denominator),
                      Frac(A * F - C * D, denominator)>>)

----------------------------------------------------------------------------
(* Distances with noise.  The error experiments add a noise sample to a    *)
(* true distance sqrt(q), which the signed square cannot carry.  There a   *)
(* number is <<N, d>>: the sum of N[r] * sqrt(r) over the square-free      *)
(* radicands r in DOMAIN N (r = 1 for the rational part), divided by       *)
(* d > 0, in lowest terms; coordinates and distances in half metres.       *)

NCoef(N, r) == IF r \in DOMAIN N THEN N[r] ELSE 0
NClean(N) == [r \in {t \in DOMAIN N : N[t] # 0} |-> N[r]]
NAdd(N, M) == NClean([r \in DOMAIN N \cup DOMAIN M |-> NCoef(N, r) + NCoef(M, r)])
NScale(k, N) == NClean([r \in DOMAIN N |-> k * N[r]])

\* sqrt(r) * sqrt(t) = GCD(r, t) * sqrt((r / g) * (t / g)) for square-free r, t
RMul(r, t) == (r \div GCD(r, t)) * (t \div GCD(r, t))

\* c * sqrt(r) times the sum M: for a square-free r the radicand of the
\* product determines the factor t = RMul(r, u).
NRow(c, r, M) ==
    [u \in {RMul(r, t) : t \in DOMAIN M} |->
        c * M[RMul(r, u)] * GCD(r, RMul(r, u))]

RECURSIVE NMulRows(_, _, _)
NMulRows(R, N, M) ==
    IF R = {} THEN [r \in {} |-> 0]
    ELSE LET r == CHOOSE t \in R : TRUE
         IN  NAdd(NRow(N[r], r, M), NMulRows(R \ {r}, N, M))

NMul(N, M) == NMulRows(DOMAIN N, N, M)

RECURSIVE NGcd(_, _, _)
NGcd(N, R, g) ==
    IF R = {} THEN g
    ELSE LET r == CHOOSE t \in R : TRUE
         IN  NGcd(N, R \ {r}, GCD(g, Abs(N[r])))

\* N / d in lowest terms
SFrac(N, d) ==
    IF d = 1 THEN <<N, 1>>
    ELSE LET g == NGcd(N, DOMAIN N, Abs(d))
             s == IF d < 0 THEN -1 ELSE 1
         IN  <<[r \in DOMAIN N |-> (s * N[r]) \div g], Abs(d) \div g>>

SInt(k) == <<NClean([r \in {1} |-> k]), 1>>
SAdd(a, b) ==
    LET l == (a[2] \div GCD(a[2], b[2])) * b[2]
    IN  SFrac(NAdd(NScale(l \div a[2], a[1]), NScale(l \div b[2], b[1])), l)
SNeg(a) == <<[r \in DOMAIN a[1] |-> -a[1][r]], a[2]>>
SSub(a, b) == SAdd(a, SNeg(b))
SMul(a, b) == SFrac(NMul(a[1], b[1]), a[2] * b[2])
SDivInt(a, k) == SFrac(a[1], a[2] * k)
SScale(k, a) == SFrac(NScale(k, a[1]), a[2])

\* The largest s with s * s dividing q (q > 0).
SqPart(q) ==
    LET S == {s \in 1..q : s * s <= q /\ q % (s * s) = 0}
    IN  CHOOSE s \in S : \A t \in S : t <= s

\* sqrt(q) of an integer q >= 0: np.linalg.norm of a difference whose
\* squared length is q.
SRoot(q) ==
    IF q = 0 THEN SInt(0)
    ELSE <<[r \in {q \div (SqPart(q) * SqPart(q))} |-> SqPart(q)], 1>>

\* A number without irrational part, and its value as a fraction.
SIsRat(a) == DOMAIN a[1] \subseteq {1}
SRat(a) == <<NCoef(a[1], 1), a[2]>>

\* a < 0 for a number with at most one irrational term, u + v * sqrt(r).
SNegative(a) ==
    LET rs == DOMAIN a[1] \ {1}
        u == NCoef(a[1], 1)
        r == IF rs = {} THEN 1 ELSE CHOOSE t \in rs : TRUE
        v == IF rs = {} THEN 0 ELSE a[1][r]
    IN  IF v = 0 THEN u < 0
        ELSE IF u = 0 THEN v < 0
        ELSE IF u < 0 /\ v < 0 THEN TRUE
        ELSE IF u > 0 /\ v > 0 THEN FALSE
        ELSE IF u < 0 THEN u * u > v * v * r
        ELSE u * u < v * v * r

\* A solver that also rejects a negative distance, so that the outcome
\* depends on the distances.
trilateration_validating(p1, d1, p2, d2, p3, d3) ==
    LET x1 == p1[1]  y1 == p1[2]
        x2 == p2[1]  y2 == p2[2]
        x3 == p3[1]  y3 == p3[2]
        A == 2 * (x2 - x1)
        B == 2 * (y2 - y1)
        C == SAdd(SSub(SMul(d1, d1), SMul(d2, d2)),
                  SInt(- x1*x1 + x2*x2 - y1*y1 + y2*y2))
        D == 2 * (x3 - x1)
        E == 2 * (y3 - y1)
        F == SAdd(SSub(SMul(d1, d1), SMul(d3, d3)),
                  SInt(- x1*x1 + x3*x3 - y1*y1 + y3*y3))
        denominator == A * E - B * D
    IN  IF denominator = 0 \/ SNegative(d1) \/ SNegative(d2) \/ SNegative(d3)
        THEN Raise(AnchorsAligned)
        ELSE Return(<<SDivInt(SSub(SScale(E, C), SScale(B, F)), denominator),
                      SDivInt(SSub(SScale(A, F), SScale(D, C)), denominator)>>)

\* trilateration(p1, d1, p2, d2, p3, d3) of the error experiments on
\* distances with noise: the same statements in UWB_error_test_boxplot.py,
\* UWB_error_test_line.py and UWB_errors_on_map.py.
trilateration(p1, d1, p2, d2, p3, d3) ==
    LET x1 == p1[1]  y1 == p1[2]
        x2 == p2[1]  y2 == p2[2]
        x3 == p3[1]  y3 == p3[2]
        A == 2 * (x2 - x1)
        B == 2 * (y2 - y1)
        C == SAdd(SSub(SMul(d1, d1), SMul(d2, d2)),
                  SInt(- x1*x1 + x2*x2 - y1*y1 + y2*y2))
        D == 2 * (x3 - x1)
        E == 2 * (y3 - y1)
        F == SAdd(SSub(SMul(d1, d1), SMul(d3, d3)),
                  SInt(- x1*x1 + x3*x3 - y1*y1 + y3*y3))
        denominator == A * E - B * D
    IN  IF denominator = 0
        THEN Raise(AnchorsAligned)
        ELSE Return(<<SDivInt(SSub(SScale(E, C), SScale(B, F)), denominator),
                      SDivInt(SSub(SScale(A, F), SScale(D, C)), denominator)>>)

\* np.linalg.norm(a - b) of two points with such coordinates: the
\* non-negative root of sq.
SNorm(a, b) ==
    LET dx == SSub(a[1], b[1])
        dy == SSub(a[2], b[2])
    IN  [sq |-> SAdd(SMul(dx, dx), SMul(dy, dy))]

\* np.mean(errors): the sum of the errors, in list order, over their number.
Mean(errors_) == [sum |-> errors_, n |-> Len(errors_)]
NaN == [sum |-> <<>>, n |-> 0]

----------------------------------------------------------------------------
(* Python's sorted and slicing *)

Min(a, b) == IF a <= b THEN a ELSE b

\* s[:k]
Take(s, k) == SubSeq(s, 1, Min(k, Len(s)))

\* Insert e into the sorted s behind every element whose key is <= e's.
RECURSIVE Insert(_, _, _)
Insert(e, s, key) ==
    IF s = <<>> THEN <<e>>
    ELSE IF key[Head(s)] <= key[e]
         THEN <<Head(s)>> \o Insert(e, Tail(s), key)
         ELSE <<e>> \o s

\* sorted(s, key=...): ascending by key, stable.
RECURSIVE Sorted(_, _)
Sorted(s, key) ==
    IF s = <<>> THEN <<>>
    ELSE Insert(s[Len(s)], Sorted(SubSeq(s, 1, Len(s) - 1), key), key)

\* range(n) as a list
Range(n) == [i \in 1..n |-> i - 1]

\* [f(x) for x in s if P(x)] keeps the order of s.
RECURSIVE Filter(_, _)
Filter(s, keep) ==
    IF s = <<>> THEN <<>>
    ELSE IF Head(s) \in keep
         THEN <<Head(s)>> \o Filter(Tail(s), keep)
         ELSE Filter(Tail(s), keep)

----------------------------------------------------------------------------
(* Anchor selection *)

\* s[::-1]
Reverse(s) == [i \in 1..Len(s) |-> s[Len(s) + 1 - i]]

\* A plausible slip: the indices are sorted from the back, so that equal
\* distances come out in descending index order.
ClosestThree_fromback(anchors_, distances_) ==
    LET key == [i \in 0..(Len(distances_) - 1) |-> distances_[i + 1]]
    IN  [anchors |-> anchors_, distances |-> distances_,
         d_index |-> Take(Sorted(Reverse(Range(Len(distances_))), key), 3)]

\* A plausible slip: distances.sort() in place before taking the indices.
ClosestThree_inplace(anchors_, distances_) ==
    LET ds == Sorted(distances_, [d \in {distances_[i] : i \in DOMAIN distances_} |-> d])
        key == [i \in 0..(Len(ds) - 1) |-> ds[i + 1]]
    IN  [anchors |-> anchors_, distances |-> ds,
         d_index |-> Take(Sorted(Range(Len(ds)), key), 3)]

\* uwb3anchorstest.py update_position, "pick closest 3 distances": the lists
\* as the step leaves them and the local d_index.
ClosestThree(anchors_, distances_) ==
    LET key == [i \in 0..(Len(distances_) - 1) |-> distances_[i + 1]]
    IN  [anchors |-> anchors_, distances |-> distances_,
         d_index |-> Take(Sorted(Range(Len(distances_)), key), 3)]

\* A plausible slip: the range test written d < 10.
RangeGated_strict(distances_) ==
    LET pairs == [i \in 1..Len(distances_) |-> <<i - 1, distances_[i]>>]
        inrange == {pairs[i] : i \in {j \in DOMAIN pairs : pairs[j][2] < Metres(10)}}
        within_10m == Filter(pairs, inrange)
        key == [x \in inrange |-> x[2]]
        cv == Take(Sorted(within_10m, key), 3)
        n == Len(cv)
    IN  [distances |-> distances_, within_10m |-> within_10m,
         closest_valid |-> cv, count |-> n,
         circle_color |-> IF n = 3 THEN "green"
                          ELSE IF n = 2 THEN "yellow"
                          ELSE IF n = 1 THEN "red" ELSE "None",
         raised |-> NoExc]

\* A plausible slip: the colours of the one- and two-anchor tiers swapped.
RangeGated_tiers(distances_) ==
    LET pairs == [i \in 1..Len(distances_) |-> <<i - 1, distances_[i]>>]
        inrange == {pairs[i] : i \in {j \in DOMAIN pairs : pairs[j][2] <= Metres(10)}}
        within_10m == Filter(pairs, inrange)
        key == [x \in inrange |-> x[2]]
        cv == Take(Sorted(within_10m, key), 3)
        n == Len(cv)
    IN  [distances |-> distances_, within_10m |-> within_10m,
         closest_valid |-> cv, count |-> n,
         circle_color |-> IF n = 3 THEN "green"
                          ELSE IF n = 2 THEN "red"
                          ELSE IF n = 1 THEN "yellow" ELSE "None",
         raised |-> NoExc]

\* UWB_movable_position_GUI.py update_circles, steps 2 to 4: the distance
\* list as the steps leave it and the locals within_10m, closest_valid,
\* count and circle_color.  No statement of these steps raises.
RangeGated(distances_) ==
    LET pairs == [i \in 1..Len(distances_) |-> <<i - 1, distances_[i]>>]
        inrange == {pairs[i] : i \in {j \in DOMAIN pairs : pairs[j][2] <= Metres(10)}}
        within_10m == Filter(pairs, inrange)
        key == [x \in inrange |-> x[2]]
        cv == Take(Sorted(within_10m, key), 3)
        n == Len(cv)
    IN  [distances |-> distances_, within_10m |-> within_10m,
         closest_valid |-> cv, count |-> n,
         circle_color |-> IF n = 3 THEN "green"
                          ELSE IF n = 2 THEN "yellow"
                          ELSE IF n = 1 THEN "red" ELSE "None",
         raised |-> NoExc]

\* auto_sinus.py update_circles, the same steps (a full triple is purple).
RangeGated_sinus(distances_) ==
    LET pairs == [i \in 1..Len(distances_) |-> <<i - 1, distances_[i]>>]
        inrange == {pairs[i] : i \in {j \in DOMAIN pairs : pairs[j][2] <= Metres(10)}}
        within_10m == Filter(pairs, inrange)
        key == [x \in inrange |-> x[2]]
        cv == Take(Sorted(within_10m, key), 3)
        n == Len(cv)
    IN  [distances |-> distances_, within_10m |-> within_10m,
         closest_valid |-> cv, count |-> n,
         circle_color |-> IF n = 3 THEN "purple"
                          ELSE IF n = 2 THEN "yellow"
                          ELSE IF n = 1 THEN "red" ELSE "None",
         raised |-> NoExc]

----------------------------------------------------------------------------
(* Text *)

\* n / d (d > 0) rounded to the nearest integer, ties to even.
RoundHalfEven(n, d) ==
    LET fl == n \div d
        r == n - fl * d
    IN  IF 2 * r < d THEN fl
        ELSE IF 2 * r > d THEN fl + 1
        ELSE IF fl % 2 = 0 THEN fl ELSE fl + 1

\* f"{v:.2f}" of a coordinate or length v given as a fraction of half
\* metres: the number of hundredths of a metre shown.
Fmt2(f) == RoundHalfEven(50 * f[1], f[2])

\* The largest r with r * r <= n, for n >= 0, searched between lo and hi.
RECURSIVE ISqrtIn(_, _, _)
ISqrtIn(n, lo, hi) ==
    IF lo = hi THEN lo
    ELSE LET mid == (lo + hi + 1) \div 2
         IN  IF mid * mid <= n THEN ISqrtIn(n, mid, hi)
             ELSE ISqrtIn(n, lo, mid - 1)

\* f"{d:.2f}" of a distance d: the hundredths of a metre shown, which is
\* 50 * sqrt(|d|) rounded to the nearest integer, with the sign of d.
FmtDist(d) ==
    LET r == (ISqrtIn(10000 * Abs(d), 0, 20000) + 1) \div 2
    IN  IF d < 0 THEN -r ELSE r

\* float(s) of the texts an Entry holds in the model; None is ValueError.
ParseFloat(s) ==
    CASE s = "5.0" -> Some(Metres(5))
      [] s = "6" -> Some(Metres(6))
      [] s = "6.0" -> Some(Metres(6))
      [] s = "7.0" -> Some(Metres(7))
      [] s = "8.0" -> Some(Metres(8))
      [] OTHER -> None

\* str(d) of the distances the manager holds in the model.
FloatStr(d) ==
    CASE d = Metres(5) -> "5.0"
      [] d = Metres(6) -> "6.0"
      [] d = Metres(7) -> "7.0"
      [] d = Metres(8) -> "8.0"
      [] OTHER -> "?"

\* min(ref_lines, key=lambda y: abs(y_star - y)) for ref_lines = [0, -3]:
\* the first of the two at the smallest distance.
ClosestRefLine(y_star) ==
    IF FLess(FAbs(FSub(y_star, FInt(-6))), FAbs(FSub(y_star, FInt(0))))
    THEN -6 ELSE 0

----------------------------------------------------------------------------
(* The anchor manager, uwb3anchorstest.py.  G is the record of the globals *)
(* its functions read and write.                                           *)

\* for i, entry in enumerate(distance_entries): distances[i] = float(...)
\* The loop stops at the first text float() refuses, the earlier
\* distances already replaced.
ParseEntries(distances_, entries) ==
    LET bad == {i \in DOMAIN entries : ParseFloat(entries[i]) = None}
        first == IF bad = {} THEN Len(entries) + 1
                 ELSE CHOOSE i \in bad : \A j \in bad : i <= j
    IN  [raised |-> IF bad = {} THEN NoExc
                    ELSE Exc("ValueError", "could not convert string to float"),
         distances |-> [i \in DOMAIN distances_ |->
                           IF i < first /\ i \in DOMAIN entries
                           THEN ParseFloat(entries[i])[1]
                           ELSE distances_[i]]]

\* A plausible slip: the old marker is removed before the solver is called.
update_position_clearfirst(G) ==
    IF Len(G.anchors) < 3
    THEN [G EXCEPT !.result_label = [text |-> "Need at least 3 anchors", pos |-> None]]
    ELSE
    LET parsed == ParseEntries(G.distances, G.distance_entries)
    IN  IF Raised(parsed)
        THEN [G EXCEPT !.distances = parsed.distances,
                       !.star = None, !.star_label = None,
                       !.result_label = [text |-> parsed.raised.msg, pos |-> None],
                       !.exc = parsed.raised]
        ELSE
        LET sel == ClosestThree(G.anchors, parsed.distances)
            idx == sel.d_index
            p(k) == sel.anchors[idx[k] + 1]
            d(k) == sel.distances[idx[k] + 1]
            r == trilateration_3anchors(p(1), d(1), p(2), d(2), p(3), d(3))
            H == [G EXCEPT !.anchors = sel.anchors, !.distances = sel.distances,
                           !.d_index = Some(idx),
                           !.star = None, !.star_label = None,
                           !.sel_pre = Some([anchors |-> G.anchors,
                                             distances |-> parsed.distances]),
                           !.sel_post = Some([anchors |-> sel.anchors,
                                              distances |-> sel.distances]),
                           !.solver_call = Some([available |-> Len(G.anchors),
                                                 p |-> <<p(1), p(2), p(3)>>,
                                                 d |-> <<d(1), d(2), d(3)>>])]
        IN  IF Raised(r)
            THEN [H EXCEPT !.result_label = [text |-> r.raised.msg, pos |-> None],
                           !.exc = r.raised]
            ELSE
            LET pos == r.value[1]
                y_star == pos[2]
                closest_y == ClosestRefLine(y_star)
                distance_to_line == FAbs(FSub(y_star, FInt(closest_y)))
            IN  [H EXCEPT
                   !.star = Some(pos),
                   !.result_label = [text |-> "Estimated Position",
                                     pos |-> Some(<<Fmt2(pos[1]), Fmt2(pos[2])>>)],
                   !.dashed_line = Some([x |-> pos[1], y0 |-> y_star,
                                         y1 |-> closest_y]),
                   !.distance_text = Some(Fmt2(distance_to_line)),
                   !.star_label = Some(<<Fmt2(pos[1]), Fmt2(pos[2])>>)]

\* update_position(): the exception a statement of the try block raises is
\* caught, shown in result_label and recorded in exc.
update_position(G) ==
    IF Len(G.anchors) < 3
    THEN [G EXCEPT !.result_label = [text |-> "Need at least 3 anchors", pos |-> None]]
    ELSE
    LET parsed == ParseEntries(G.distances, G.distance_entries)
    IN  IF Raised(parsed)
        THEN [G EXCEPT !.distances = parsed.distances,
                       !.result_label = [text |-> parsed.raised.msg, pos |-> None],
                       !.exc = parsed.raised]
        ELSE
        LET sel == ClosestThree(G.anchors, parsed.distances)
            idx == sel.d_index
            p(k) == sel.anchors[idx[k] + 1]
            d(k) == sel.distances[idx[k] + 1]
            r == trilateration_3anchors(p(1), d(1), p(2), d(2), p(3), d(3))
            H == [G EXCEPT !.anchors = sel.anchors, !.distances = sel.distances,
                           !.d_index = Some(idx),
                           !.sel_pre = Some([anchors |-> G.anchors,
                                             distances |-> parsed.distances]),
                           !.sel_post = Some([anchors |-> sel.anchors,
                                              distances |-> sel.distances]),
                           !.solver_call = Some([available |-> Len(G.anchors),
                                                 p |-> <<p(1), p(2), p(3)>>,
                                                 d |-> <<d(1), d(2), d(3)>>])]
        IN  IF Raised(r)
            THEN [H EXCEPT !.result_label = [text |-> r.raised.msg, pos |-> None],
                           !.exc = r.raised]
            ELSE
            LET pos == r.value[1]
                y_star == pos[2]
                closest_y == ClosestRefLine(y_star)
                distance_to_line == FAbs(FSub(y_star, FInt(closest_y)))
            IN  [H EXCEPT
                   !.star = Some(pos),
                   !.result_label = [text |-> "Estimated Position",
                                     pos |-> Some(<<Fmt2(pos[1]), Fmt2(pos[2])>>)],
                   !.dashed_line = Some([x |-> pos[1], y0 |-> y_star,
                                         y1 |-> closest_y]),
                   !.distance_text = Some(Fmt2(distance_to_line)),
                   !.star_label = Some(<<Fmt2(pos[1]), Fmt2(pos[2])>>)]

\* redraw_anchors(): one Entry and one circle per (anchor, distance) pair.
redraw_anchors(G) ==
    LET n == Min(Len(G.anchors), Len(G.distances))
    IN  [G EXCEPT
           !.distance_entries = [i \in 1..n |-> FloatStr(G.distances[i])],
           !.circles = [i \in 1..n |-> [center |-> G.anchors[i],
                                        radius |-> G.distances[i]]]]

\* The globals of the running manager as a record, and back.
Globals ==
    [anchors |-> anchors, distances |-> distances,
     distance_entries |-> distance_entries, circles |-> circles,
     star |-> star, star_label |-> star_label, dashed_line |-> dashed_line,
     distance_text |-> distance_text, result_label |-> result_label,
     d_index |-> d_index, solver_call |-> solver_call, exc |-> NoExc,
     sel_pre |-> sel_pre, sel_post |-> sel_post]

SetGlobals(G) ==
    /\ anchors' = G.anchors /\ distances' = G.distances
    /\ distance_entries' = G.distance_entries /\ circles' = G.circles
    /\ star' = G.star /\ star_label' = G.star_label
    /\ dashed_line' = G.dashed_line /\ distance_text' = G.distance_text
    /\ result_label' = G.result_label /\ d_index' = G.d_index
    /\ solver_call' = G.solver_call /\ exc' = G.exc
    /\ sel_pre' = G.sel_pre /\ sel_post' = G.sel_post

otherVars ==
    <<args, ret, sel_in, sel_out, corridor_line, corridor_text,
      received_label, star_pos, selected_star, latest_data, closest_valid,
      count, circle_color, text_labels, response, simVars, serverVars, poll_thread>>

\* Bound of the model: drag and typing events of one run.
MaxEdits == 2

\* [6, 7.5], [9, -3], [5, 7.5] and 7.0, 5.0, 8.0
ManagerStart ==
    [anchors |-> << <<12, 15>>, <<18, -6>>, <<10, 15>> >>,
     distances |-> <<Metres(7), Metres(5), Metres(8)>>,
     distance_entries |-> <<>>, circles |-> <<>>,
     star |-> None, star_label |-> None, dashed_line |-> None,
     distance_text |-> None,
     result_label |-> [text |-> "Estimated Position: (?)", pos |-> None],
     d_index |-> None, solver_call |-> None, exc |-> NoExc,
     sel_pre |-> None, sel_post |-> None]

\* Inputs of the model.  random.uniform(-10, 10) twice: (-4, 2).
AddPositions == {<<-8, 4>>}
\* Where the mouse moves to: (8, 7.5), on the line of A1 and A3, and (0, 0).
DragTargets == {<<16, 15>>, <<0, 0>>}
\* Where the mouse is pressed: on A2's first place, on the place of a new
\* anchor, or away from every anchor.
ClickPoints == {<<18, -6>>, <<-8, 4>>, <<-30, -30>>}
\* What is typed into an Entry, and the Entry typed into (A1's).
TypedTexts == {"6", "abc"}
TypedEntries == {0}

\* A mouse event: inside the axes with its data coordinates, or outside.
Events(points) ==
    {[inaxes |-> TRUE, xdata |-> q[1], ydata |-> q[2]] : q \in points}
        \cup {[inaxes |-> FALSE, xdata |-> 0, ydata |-> 0]}

InitManager ==
    /\ NoPoll
    /\ NoServer
    /\ NoSim
    /\ prog = "manager"
    /\ \E R \in {redraw_anchors(ManagerStart)} :
       \E G \in {update_position(R)} :
           /\ anchors = G.anchors /\ distances = G.distances
           /\ distance_entries = G.distance_entries /\ circles = G.circles
           /\ star = G.star /\ star_label = G.star_label
           /\ dashed_line = G.dashed_line /\ distance_text = G.distance_text
           /\ result_label = G.result_label /\ d_index = G.d_index
           /\ solver_call = G.solver_call /\ exc = G.exc
           /\ sel_pre = G.sel_pre /\ sel_post = G.sel_post
    /\ selected_index = None /\ edits = 0
    /\ args = None /\ ret = None
    /\ sel_in = <<>> /\ sel_out = [overall |-> None, gated |-> None]
    /\ corridor_line = None /\ corridor_text = None /\ received_label = None
    /\ star_pos = <<0, 0>> /\ selected_star = FALSE /\ latest_data = <<>>
    /\ closest_valid = None /\ count = 0 /\ circle_color = "None"
    /\ text_labels = <<>> /\ response = None

\* The "Find Position" button.
find_position ==
    /\ prog = "manager"
    /\ \E G \in {Globals} : \E U \in {update_position(G)} : SetGlobals(U)
    /\ UNCHANGED <<prog, selected_index, edits, otherVars>>

\* A key released in Entry i after its text became t: <KeyRelease> calls
\* update_position().
key_release ==
    /\ prog = "manager" /\ edits < MaxEdits
    /\ \E i \in TypedEntries, t \in TypedTexts :
          /\ i < Len(distance_entries)
          /\ \E G \in {[Globals EXCEPT !.distance_entries[i + 1] = t]} :
                 \E U \in {update_position(G)} : SetGlobals(U)
    /\ edits' = edits + 1
    /\ UNCHANGED <<prog, selected_index, otherVars>>

\* A plausible slip: the limit is tested with > instead of >=.
add_anchor_offbyone ==
    /\ prog = "manager"
    /\ IF Len(anchors) > 10
       THEN \E G \in {[Globals EXCEPT !.result_label =
                          [text |-> "Max 10 anchors allowed", pos |-> None]]} :
                SetGlobals(G)
       ELSE \E xy \in AddPositions :
              \E G \in {[Globals EXCEPT !.anchors = Append(anchors, xy),
                                        !.distances = Append(distances, Metres(5))]} :
                  \E R \in {redraw_anchors(G)} : SetGlobals(R)
    /\ UNCHANGED <<prog, selected_index, edits, otherVars>>

\* add_anchor()
add_anchor ==
    /\ prog = "manager"
    /\ IF Len(anchors) >= 10
       THEN \E G \in {[Globals EXCEPT !.result_label =
                          [text |-> "Max 10 anchors allowed", pos |-> None]]} :
                SetGlobals(G)
       ELSE \E xy \in AddPositions :
              \E G \in {[Globals EXCEPT !.anchors = Append(anchors, xy),
                                        !.distances = Append(distances, Metres(5))]} :
                  \E R \in {redraw_anchors(G)} : SetGlobals(R)
    /\ UNCHANGED <<prog, selected_index, edits, otherVars>>

\* remove_anchor()
remove_anchor ==
    /\ prog = "manager"
    /\ IF Len(anchors) <= 3
       THEN \E G \in {[Globals EXCEPT !.result_label =
                          [text |-> "Need minimum 3 anchors", pos |-> None]]} :
                SetGlobals(G)
       ELSE \E G \in {[Globals EXCEPT
                          !.anchors = SubSeq(anchors, 1, Len(anchors) - 1),
                          !.distances = SubSeq(distances, 1, Len(distances) - 1)]} :
                \E R \in {redraw_anchors(G)} : SetGlobals(R)
    /\ UNCHANGED <<prog, selected_index, edits, otherVars>>

\* on_press(event): the first anchor closer than 0.5 m to the click.
on_press ==
    /\ prog = "manager"
    /\ \E event \in Events(ClickPoints) :
          IF ~event.inaxes
          THEN selected_index' = selected_index
          ELSE LET hit == {i \in 0..(Len(anchors) - 1) :
                              Norm(<<event.xdata, event.ydata>>, anchors[i + 1]) < 1}
               IN  selected_index' =
                       IF hit = {} THEN None
                       ELSE Some(CHOOSE i \in hit : \A j \in hit : i <= j)
    /\ \E G \in {Globals} : SetGlobals(G)
    /\ UNCHANGED <<prog, edits, otherVars>>

\* on_release(event)
on_release ==
    /\ prog = "manager"
    /\ selected_index' = None
    /\ \E G \in {Globals} : SetGlobals(G)
    /\ UNCHANGED <<prog, edits, otherVars>>

\* on_motion(event): the selected anchor follows the mouse, then
\* redraw_anchors() and update_position().  An index past the end of
\* anchors raises IndexError out of the handler before anything is written.
on_motion ==
    /\ prog = "manager"
    /\ \E event \in Events(DragTargets) :
          IF selected_index = None \/ ~event.inaxes
          THEN (\E G \in {Globals} : SetGlobals(G)) /\ edits' = edits
          ELSE /\ edits < MaxEdits
               /\ edits' = edits + 1
               /\ IF selected_index[1] >= Len(anchors)
                  THEN \E G \in {[Globals EXCEPT !.exc =
                          Exc("IndexError", "list index out of range")]} :
                          SetGlobals(G)
                  ELSE \E G \in {[Globals EXCEPT !.anchors[selected_index[1] + 1] =
                                     <<event.xdata, event.ydata>>]} :
                          \E R \in {redraw_anchors(G)} :
                              \E U \in {update_position(R)} : SetGlobals(U)
    /\ UNCHANGED <<prog, selected_index, otherVars>>

NextManager ==
    \/ find_position \/ key_release \/ add_anchor \/ remove_anchor
    \/ on_press \/ on_release \/ on_motion

----------------------------------------------------------------------------
(* The draggable star, UWB_movable_position_GUI.py *)

MovableAnchors ==
    << <<-30, 0>>, <<-18, 0>>, <<-6, 0>>, <<6, 0>>, <<18, 0>>, <<30, 0>>,
       <<-30, -6>>, <<-18, -6>>, <<-6, -6>>, <<6, -6>>, <<18, -6>>, <<30, -6>> >>

\* A plausible slip: every anchor in range is kept, not the closest three.
update_circles_all(anchors_, star_pos_) ==
    LET ds == [i \in 1..Len(anchors_) |-> Norm(anchors_[i], star_pos_)]
        r == RangeGated(ds)
        cv == r.within_10m
        closest_y == ClosestRefLine(FInt(star_pos_[2]))
    IN  [anchors |-> anchors_, distances |-> r.distances,
         closest_valid |-> cv, count |-> Len(cv),
         circle_color |-> r.circle_color,
         circles |-> [k \in 1..Len(cv) |->
                        [center |-> anchors_[cv[k][1] + 1], radius |-> cv[k][2],
                         color |-> r.circle_color]],
         text_labels |-> [k \in 1..Len(cv) |-> FmtDist(cv[k][2])],
         star_label |-> Some(<<Fmt2(FInt(star_pos_[1])), Fmt2(FInt(star_pos_[2]))>>),
         corridor_line |-> Some([x |-> FInt(star_pos_[1]),
                                 y0 |-> FInt(star_pos_[2]), y1 |-> closest_y]),
         corridor_text |-> Some(Fmt2(FAbs(FSub(FInt(star_pos_[2]), FInt(closest_y))))),
         sel_pre |-> Some([anchors |-> anchors_, distances |-> ds]),
         sel_post |-> Some([anchors |-> anchors_, distances |-> r.distances]),
         exc |-> r.raised]

\* update_circles(): the locals it computes and the visuals it draws.
update_circles(anchors_, star_pos_) ==
    LET ds == [i \in 1..Len(anchors_) |-> Norm(anchors_[i], star_pos_)]
        r == RangeGated(ds)
        cv == r.closest_valid
        closest_y == ClosestRefLine(FInt(star_pos_[2]))
    IN  [anchors |-> anchors_, distances |-> r.distances,
         closest_valid |-> cv, count |-> r.count,
         circle_color |-> r.circle_color,
         circles |-> [k \in 1..Len(cv) |->
                        [center |-> anchors_[cv[k][1] + 1], radius |-> cv[k][2],
                         color |-> r.circle_color]],
         text_labels |-> [k \in 1..Len(cv) |-> FmtDist(cv[k][2])],
         star_label |-> Some(<<Fmt2(FInt(star_pos_[1])), Fmt2(FInt(star_pos_[2]))>>),
         corridor_line |-> Some([x |-> FInt(star_pos_[1]),
                                 y0 |-> FInt(star_pos_[2]), y1 |-> closest_y]),
         corridor_text |-> Some(Fmt2(FAbs(FSub(FInt(star_pos_[2]), FInt(closest_y))))),
         sel_pre |-> Some([anchors |-> anchors_, distances |-> ds]),
         sel_post |-> Some([anchors |-> anchors_, distances |-> r.distances]),
         exc |-> r.raised]

\* Where the star is pressed and dragged to: (0, 0) with eight anchors in
\* range, (-15, 10) with one at exactly 10 m, (0, 9) with two, (0, 10) with
\* none, and (6, -1.5).
StarPoints == {<<0, 0>>, <<-30, 20>>, <<0, 18>>, <<0, 20>>, <<12, -3>>}

\* The variables update_circles() writes, before and after.
SetCircles(U) ==
    /\ anchors = U.anchors /\ distances = U.distances
    /\ closest_valid = Some(U.closest_valid) /\ count = U.count
    /\ circle_color = U.circle_color /\ circles = U.circles
    /\ text_labels = U.text_labels /\ star_label = U.star_label
    /\ corridor_line = U.corridor_line /\ corridor_text = U.corridor_text
    /\ sel_pre = U.sel_pre /\ sel_post = U.sel_post /\ exc = U.exc

SetCirclesNext(U) ==
    /\ anchors' = U.anchors /\ distances' = U.distances
    /\ closest_valid' = Some(U.closest_valid) /\ count' = U.count
    /\ circle_color' = U.circle_color /\ circles' = U.circles
    /\ text_labels' = U.text_labels /\ star_label' = U.star_label
    /\ corridor_line' = U.corridor_line /\ corridor_text' = U.corridor_text
    /\ sel_pre' = U.sel_pre /\ sel_post' = U.sel_post /\ exc' = U.exc

circleVars ==
    <<anchors, distances, closest_valid, count, circle_color, circles,
      text_labels, star_label, corridor_line, corridor_text, sel_pre,
      sel_post>>

movableOther ==
    <<prog, args, ret, sel_in, sel_out, distance_entries, dashed_line,
      distance_text, result_label, received_label, selected_index,
      latest_data, d_index, response, solver_call, edits, simVars, serverVars, poll_thread>>

InitMovable ==
    /\ NoPoll
    /\ NoServer
    /\ NoSim
    /\ prog = "movable"
    /\ star_pos = <<0, 0>> /\ selected_star = FALSE
    /\ star = Some(<<FInt(0), FInt(0)>>)
    /\ \E U \in {update_circles(MovableAnchors, <<0, 0>>)} : SetCircles(U)
    /\ args = None /\ ret = None
    /\ sel_in = <<>> /\ sel_out = [overall |-> None, gated |-> None]
    /\ distance_entries = <<>> /\ dashed_line = None /\ distance_text = None
    /\ result_label = [text |-> "", pos |-> None] /\ received_label = None
    /\ selected_index = None /\ latest_data = <<>> /\ d_index = None
    /\ response = None /\ solver_call = None /\ edits = 0

\* on_press(event): within 0.7 m of the star.
star_on_press ==
    /\ prog = "movable"
    /\ \E event \in Events(StarPoints \cup {<<-40, -40>>}) :
          selected_star' =
              IF event.inaxes
                 /\ 100 * Norm(<<event.xdata, event.ydata>>, star_pos) < 196
              THEN TRUE ELSE selected_star
    /\ exc' = NoExc
    /\ UNCHANGED <<star, star_pos, circleVars, movableOther>>

\* on_release(event)
star_on_release ==
    /\ prog = "movable"
    /\ selected_star' = FALSE
    /\ exc' = NoExc
    /\ UNCHANGED <<star, star_pos, circleVars, movableOther>>

\* on_motion(event): the star follows the mouse, then update_circles().
star_on_motion ==
    /\ prog = "movable"
    /\ \E event \in Events(StarPoints) :
          IF ~selected_star \/ ~event.inaxes
          THEN /\ exc' = NoExc
               /\ UNCHANGED <<star, star_pos, circleVars>>
          ELSE /\ star_pos' = <<event.xdata, event.ydata>>
               /\ star' = Some(<<FInt(event.xdata), FInt(event.ydata)>>)
               /\ \E U \in {update_circles(anchors, <<event.xdata, event.ydata>>)} :
                      SetCirclesNext(U)
    /\ UNCHANGED <<selected_star, movableOther>>

NextMovable == star_on_press \/ star_on_release \/ star_on_motion

----------------------------------------------------------------------------
(* The live poll loop, auto_distances.py, and its server, test_server_uwb.py *)

AutoAnchors ==
    << <<-33, 0>>, <<-21, 0>>, <<-9, 0>>, <<3, 0>>, <<15, 0>>, <<27, 0>>,
       <<-27, -6>>, <<-15, -6>>, <<-3, -6>>, <<9, -6>>, <<21, -6>>, <<33, -6>> >>

\* list[i] of Python: a negative index counts from the end.
PyIndexOK(l, i) == -Len(l) <= i /\ i < Len(l)
PyAt(l, i) == IF i < 0 THEN l[Len(l) + i + 1] ELSE l[i + 1]

\* One reading of a snapshot.
Reading(id, d) == [anchor_id |-> id, distance |-> d]

\* update_plot(est_pos, used_indices, used_distances)
update_plot(P, est_pos, used_indices, used_distances) ==
    LET colors == <<"red", "yellow", "purple">>
        n == Min(Len(used_indices), Len(used_distances))
        closest_y == ClosestRefLine(est_pos[2])
    IN  [P EXCEPT
           !.circles = [i \in 1..n |->
                          [center |-> PyAt(AutoAnchors, used_indices[i]),
                           radius |-> used_distances[i], color |-> colors[i]]],
           !.text_labels = [i \in 1..n |-> FmtDist(used_distances[i])],
           !.star = Some(est_pos),
           !.star_label = Some(<<Fmt2(est_pos[1]), Fmt2(est_pos[2])>>),
           !.corridor_line = Some([x |-> est_pos[1], y0 |-> est_pos[2],
                                   y1 |-> closest_y]),
           !.corridor_text = Some(Fmt2(FAbs(FSub(est_pos[2], FInt(closest_y)))))]

\* A plausible slip: the loop takes the first three readings of whatever
\* the snapshot holds.
poll_distances_anylen(P, outcome, snapshot) ==
    IF outcome = "ConnectionError"
    THEN [P EXCEPT !.exc = Exc("ConnectionError", "")]
    ELSE IF outcome # "200" THEN P
    ELSE
    LET distance_data == snapshot
    IN  IF Len(distance_data) < 3
        THEN [P EXCEPT !.exc = Exc("IndexError", "list index out of range")]
        ELSE
        LET used_ids == [i \in DOMAIN distance_data |-> distance_data[i].anchor_id]
            used_distances == [i \in DOMAIN distance_data |-> distance_data[i].distance]
        IN  IF \E k \in 1..3 : ~PyIndexOK(AutoAnchors, used_ids[k])
            THEN [P EXCEPT !.exc = Exc("IndexError", "list index out of range")]
            ELSE
            LET p(k) == PyAt(AutoAnchors, used_ids[k])
                d(k) == used_distances[k]
                r == trilateration_3anchors_auto(p(1), d(1), p(2), d(2), p(3), d(3))
                Q == [P EXCEPT !.solver_call =
                          Some([available |-> Len(distance_data),
                                p |-> <<p(1), p(2), p(3)>>,
                                d |-> <<d(1), d(2), d(3)>>])]
            IN  IF Raised(r) THEN [Q EXCEPT !.exc = r.raised]
                ELSE [update_plot(Q, r.value[1], SubSeq(used_ids, 1, 3),
                                  SubSeq(used_distances, 1, 3))
                        EXCEPT !.received_label =
                                  Some(<<FmtDist(d(1)), FmtDist(d(2)), FmtDist(d(3))>>)]

\* As poll_distances, with the circles and their labels removed before the
\* solver is called.
poll_distances_clearfirst(P, outcome, snapshot) ==
    IF outcome = "ConnectionError"
    THEN [P EXCEPT !.exc = Exc("ConnectionError", "")]
    ELSE IF outcome # "200" THEN P
    ELSE
    LET distance_data == snapshot
    IN  IF Len(distance_data) # 3
        THEN [P EXCEPT !.exc = Exc("ValueError", "Beklenen 3 mesafe verisi yok")]
        ELSE
        LET used_ids == [i \in DOMAIN distance_data |-> distance_data[i].anchor_id]
            used_distances == [i \in DOMAIN distance_data |-> distance_data[i].distance]
        IN  IF \E k \in 1..3 : ~PyIndexOK(AutoAnchors, used_ids[k])
            THEN [P EXCEPT !.exc = Exc("IndexError", "list index out of range")]
            ELSE
            LET p(k) == PyAt(AutoAnchors, used_ids[k])
                d(k) == used_distances[k]
                r == trilateration_3anchors_auto(p(1), d(1), p(2), d(2), p(3), d(3))
                Q == [P EXCEPT !.solver_call =
                          Some([available |-> Len(distance_data),
                                p |-> <<p(1), p(2), p(3)>>,
                                d |-> <<d(1), d(2), d(3)>>])]
            IN  IF Raised(r)
                THEN [Q EXCEPT !.exc = r.raised, !.circles = <<>>,
                                !.text_labels = <<>>]
                ELSE [update_plot(Q, r.value[1], used_ids, used_distances)
                        EXCEPT !.received_label =
                                  Some(<<FmtDist(d(1)), FmtDist(d(2)), FmtDist(d(3))>>)]

\* One iteration of the while loop of poll_distances(): outcome is what
\* requests.get() gives, snapshot the "distances" of the JSON body.
poll_distances(P, outcome, snapshot) ==
    IF outcome = "ConnectionError"
    THEN [P EXCEPT !.exc = Exc("ConnectionError", "")]
    ELSE IF outcome # "200" THEN P
    ELSE
    LET distance_data == snapshot
    IN  IF Len(distance_data) # 3
        THEN [P EXCEPT !.exc = Exc("ValueError", "Beklenen 3 mesafe verisi yok")]
        ELSE
        LET used_ids == [i \in DOMAIN distance_data |-> distance_data[i].anchor_id]
            used_distances == [i \in DOMAIN distance_data |-> distance_data[i].distance]
        IN  IF \E k \in 1..3 : ~PyIndexOK(AutoAnchors, used_ids[k])
            THEN [P EXCEPT !.exc = Exc("IndexError", "list index out of range")]
            ELSE
            LET p(k) == PyAt(AutoAnchors, used_ids[k])
                d(k) == used_distances[k]
                r == trilateration_3anchors_auto(p(1), d(1), p(2), d(2), p(3), d(3))
                Q == [P EXCEPT !.solver_call =
                          Some([available |-> Len(distance_data),
                                p |-> <<p(1), p(2), p(3)>>,
                                d |-> <<d(1), d(2), d(3)>>])]
            IN  IF Raised(r) THEN [Q EXCEPT !.exc = r.raised]
                ELSE [update_plot(Q, r.value[1], used_ids, used_distances)
                        EXCEPT !.received_label =
                                  Some(<<FmtDist(d(1)), FmtDist(d(2)), FmtDist(d(3))>>)]

\* What is posted to /send: the exact distances of (0, 2) to anchors 2, 8
\* and 3; three anchors of the upper row; two readings; four readings; an
\* anchor id past the end; an anchor id of -1.
Snapshots ==
    { <<Reading(2, 97), Reading(8, 109), Reading(3, 25)>>,
      <<Reading(0, Metres(3)), Reading(1, Metres(3)), Reading(2, Metres(3))>>,
      <<Reading(2, 97), Reading(8, 109)>>,
      <<Reading(2, 97), Reading(8, 109), Reading(3, 25), Reading(9, 181)>>,
      <<Reading(2, 97), Reading(8, 109), Reading(12, Metres(4))>>,
      <<Reading(-1, Metres(9)), Reading(2, 97), Reading(8, 109)>> }

\* The JSON bodies posted: an object with "distances", an object without
\* it, and a JSON array.
PostBodies ==
    {[kind |-> "object", distances |-> Some(q)] : q \in Snapshots}
        \cup {[kind |-> "object", distances |-> None],
              [kind |-> "array", distances |-> None]}

\* The globals of the running poll program as a record, and back.
PollGlobals ==
    [circles |-> circles, text_labels |-> text_labels, star |-> star,
     star_label |-> star_label, corridor_line |-> corridor_line,
     corridor_text |-> corridor_text, received_label |-> received_label,
     solver_call |-> solver_call, exc |-> NoExc]

SetPollGlobals(P) ==
    /\ circles' = P.circles /\ text_labels' = P.text_labels
    /\ star' = P.star /\ star_label' = P.star_label
    /\ corridor_line' = P.corridor_line /\ corridor_text' = P.corridor_text
    /\ received_label' = P.received_label
    /\ solver_call' = P.solver_call /\ exc' = P.exc

pollOther ==
    <<prog, args, ret, sel_in, sel_out, anchors, distances, distance_entries,
      dashed_line, distance_text, result_label, selected_index, star_pos,
      selected_star, d_index, closest_valid, count, circle_color, sel_pre,
      sel_post, edits, simVars, serverVars>>

InitPoll ==
    /\ NoServer
    /\ NoSim
    /\ prog = "poll"
    /\ poll_thread = [running |-> TRUE, outcome |-> None]
    /\ anchors = AutoAnchors /\ latest_data = <<>>
    /\ star_pos = <<0, 0>> /\ star = Some(<<FInt(0), FInt(0)>>)
    /\ star_label = None /\ circles = <<>> /\ text_labels = <<>>
    /\ corridor_line = None /\ corridor_text = None
    /\ received_label = Some(<<"?">>)
    /\ response = None /\ solver_call = None /\ exc = NoExc
    /\ args = None /\ ret = None
    /\ sel_in = <<>> /\ sel_out = [overall |-> None, gated |-> None]
    /\ distances = <<>> /\ distance_entries = <<>>
    /\ dashed_line = None /\ distance_text = None
    /\ result_label = [text |-> "", pos |-> None]
    /\ selected_index = None /\ selected_star = FALSE
    /\ d_index = None /\ closest_valid = None /\ count = 0
    /\ circle_color = "None" /\ sel_pre = None /\ sel_post = None
    /\ edits = 0

\* receive_data(): POST /send
receive_data ==
    /\ prog = "poll"
    /\ \E data \in PostBodies :
          IF data.kind # "object"
          THEN /\ response' = Some(400)
               /\ latest_data' = latest_data
          ELSE /\ response' = Some(200)
               /\ latest_data' =
                      IF data.distances = None THEN <<>> ELSE data.distances[1]
    /\ \E P \in {PollGlobals} : SetPollGlobals(P)
    /\ UNCHANGED <<pollOther, poll_thread>>

\* As except_Exception, for a clause `except ValueError`.
except_ValueError(e) == e.type = "ValueError"

\* `except Exception as e` of poll_distances: whether it catches e.  The
\* exceptions an iteration raises are all subclasses of Exception.
except_Exception(e) ==
    e.type \in {"ValueError", "IndexError", "KeyError", "TypeError",
                "ConnectionError"}

\* One iteration of poll_distances(), send_latest() answering its GET; an
\* exception that the except clause does not catch ends the thread.
poll_iteration ==
    /\ prog = "poll" /\ poll_thread.running
    /\ \E outcome \in {"200", "500", "ConnectionError"} :
          \E P \in {PollGlobals} :
              \E Q \in {poll_distances(P, outcome, latest_data)} :
                  /\ SetPollGlobals(Q)
                  /\ poll_thread' =
                        [running |-> Q.exc = NoExc \/ except_Exception(Q.exc),
                         outcome |-> Some(outcome)]
    /\ UNCHANGED <<latest_data, response, pollOther>>

NextPoll == receive_data \/ poll_iteration

----------------------------------------------------------------------------
(* The three programs *)

Init == InitManager \/ InitMovable \/ InitPoll

Next == NextManager \/ NextMovable \/ NextPoll

Spec == Init /\ [][Next]_vars

----------------------------------------------------------------------------
(* Drivers of the pure functions: the inputs are drawn in the initial      *)
(* state and one step applies the function.                                *)

GridMax == 1
MaxLen == 5

Grid == {<<x, y>> : x \in 0..GridMax, y \in (-1)..GridMax}

\* The anchors and the true position of the error experiments:
\* (-4.5, 0), (-1.5, -3), (1.5, 0) and (0, 2).
RefAnchors == << <<-9, 0>>, <<-3, -6>>, <<3, 0>> >>
RefTruth == <<0, 4>>
\* (0, 0), (1, 0), (2, 0): three anchors on one line.
AlignedExample == << <<0, 0>>, <<2, 0>>, <<4, 0>> >>

AnchorTriples ==
    {<<a, b, c>> : a \in Grid, b \in Grid, c \in Grid}
        \cup {RefAnchors, AlignedExample}
TruthPoints == Grid \cup {RefTruth}
FreeDistances == {0, Metres(1), Metres(2)}

\* Either the exact distances of a true position, or any three distances.
SolverInputs ==
    {[p |-> ps, truth |-> Some(t),
      d |-> <<Norm(t, ps[1]), Norm(t, ps[2]), Norm(t, ps[3])>>] :
        ps \in AnchorTriples, t \in TruthPoints}
    \cup
    {[p |-> ps, truth |-> None, d |-> <<d1, d2, d3>>] :
        ps \in AnchorTriples, d1 \in FreeDistances,
        d2 \in FreeDistances, d3 \in FreeDistances}

\* 1, 7, 10 and 12 m: in range, exactly at 10 m, out of range.
SelDistances == {Metres(1), Metres(7), Metres(10), Metres(12)}

\* The lists of the worked examples: [10, 3, 7, 1, 20] and [12, 15, 20].
SelExamples ==
    { <<Metres(10), Metres(3), Metres(7), Metres(1), Metres(20)>>,
      <<Metres(12), Metres(15), Metres(20)>> }

RECURSIVE Lists(_, _)
Lists(S, n) ==
    IF n = 0 THEN {<<>>}
    ELSE {Append(l, x) : l \in Lists(S, n - 1), x \in S}

SelInputs == UNION {Lists(SelDistances, n) : n \in 3..MaxLen} \cup SelExamples

NoProgram ==
    /\ NoPoll
    /\ NoServer
    /\ NoSim
    /\ anchors = <<>> /\ distances = <<>> /\ distance_entries = <<>>
    /\ circles = <<>> /\ star = None /\ star_label = None
    /\ dashed_line = None /\ distance_text = None
    /\ corridor_line = None /\ corridor_text = None
    /\ result_label = [text |-> "", pos |-> None] /\ received_label = None
    /\ selected_index = None /\ star_pos = <<0, 0>>
    /\ selected_star = FALSE /\ latest_data = <<>>
    /\ d_index = None /\ closest_valid = None /\ count = 0
    /\ circle_color = "None" /\ solver_call = None /\ exc = NoExc
    /\ text_labels = <<>> /\ response = None
    /\ sel_pre = None /\ sel_post = None /\ edits = 0

programVars ==
    <<anchors, distances, distance_entries, circles, star, star_label,
      dashed_line, distance_text, corridor_line, corridor_text,
      result_label, received_label, selected_index, star_pos,
      selected_star, latest_data, d_index, closest_valid, count,
      circle_color, text_labels, response, solver_call, exc, sel_pre,
      sel_post, edits, simVars, serverVars, poll_thread>>

InitSolver ==
    /\ prog = "solver"
    /\ args \in SolverInputs
    /\ ret = None
    /\ sel_in = <<>> /\ sel_out = [overall |-> None, gated |-> None]
    /\ NoProgram

\* Every copy of the solver is called on the same arguments.
call_solver ==
    /\ prog = "solver" /\ ret = None
    /\ LET p == args.p  d == args.d
       IN  ret' = Some(
             [manager |-> trilateration_3anchors(p[1], d[1], p[2], d[2], p[3], d[3]),
              auto |-> trilateration_3anchors_auto(p[1], d[1], p[2], d[2], p[3], d[3]),
              boxplot |-> trilateration_boxplot(p[1], d[1], p[2], d[2], p[3], d[3]),
              line |-> trilateration_line(p[1], d[1], p[2], d[2], p[3], d[3]),
              map |-> trilateration_map(p[1], d[1], p[2], d[2], p[3], d[3])])
    /\ UNCHANGED <<prog, args, sel_in, sel_out, programVars>>

NextSolver == call_solver

SpecSolver == InitSolver /\ [][NextSolver]_vars

InitSelection ==
    /\ prog = "selection"
    /\ sel_in \in SelInputs
    /\ sel_out = [overall |-> None, gated |-> None]
    /\ args = None /\ ret = None
    /\ NoProgram

\* The closest-3-overall step on the drawn list (the anchors play no part).
call_closest_three ==
    /\ prog = "selection" /\ sel_out.overall = None
    /\ sel_out' = [sel_out EXCEPT !.overall = Some(ClosestThree(<<>>, sel_in))]
    /\ UNCHANGED <<prog, args, ret, sel_in, programVars>>

\* The range-gated steps of both star GUIs on the drawn list.
call_range_gated ==
    /\ prog = "selection" /\ sel_out.gated = None
    /\ sel_out' = [sel_out EXCEPT !.gated =
                      Some([movable |-> RangeGated(sel_in),
                            sinus |-> RangeGated_sinus(sel_in)])]
    /\ UNCHANGED <<prog, args, ret, sel_in, programVars>>

NextSelection == call_closest_three \/ call_range_gated

SpecSelection == InitSelection /\ [][NextSelection]_vars

----------------------------------------------------------------------------
(* The error experiments: simulate_error of UWB_error_test_boxplot.py,     *)
(* simulate_errors of UWB_error_test_line.py and simulate_and_plot of      *)
(* UWB_errors_on_map.py.  What the random module returns is a choice of    *)
(* the step; a noise level is a number of half metres.                     *)

MaxTrials == 2

\* random.uniform(a, b): the two ends of the interval.
UniformSamples(a, b) == {a, b}

\* What the random module gives one trial of a mode: the indices of
\* random.choice([0, 1, 2]) or random.sample([0, 1, 2], 2), and the samples
\* of random.uniform(lo, hi) in call order.
Draws(case_, lo, hi) ==
    LET U == UniformSamples(lo, hi)
    IN  IF case_ = 1
        THEN {[indices |-> <<i>>, samples |-> <<u>>, lo |-> lo, hi |-> hi] :
                  i \in 0..2, u \in U}
        ELSE IF case_ = 2
        THEN {[indices |-> p, samples |-> s, lo |-> lo, hi |-> hi] :
                  p \in {q \in (0..2) \X (0..2) : q[1] # q[2]}, s \in U \X U}
        ELSE IF case_ = 3
        THEN {[indices |-> <<>>, samples |-> s, lo |-> lo, hi |-> hi] :
                  s \in U \X U \X U}
        ELSE {[indices |-> <<>>, samples |-> <<>>, lo |-> lo, hi |-> hi]}

\* random.uniform(0, 5) of simulate_error: 5 m whatever the arguments.
draws_boxplot(case_) == Draws(case_, 0, 10)

\* As draws_line, with the interval half a metre wider at both ends.
draws_line_floor(case_, noise) == Draws(case_, -noise - 1, noise + 1)

\* As draws_line, with samples from twice the interval.
draws_line_wide(case_, noise) == Draws(case_, -2 * noise, 2 * noise)

\* random.uniform(-noise, noise) of simulate_errors.
draws_line(case_, noise) == Draws(case_, -noise, noise)

\* random.uniform(0, noise_level) of simulate_and_plot.
draws_map(case_, noise_level) == Draws(case_, 0, noise_level)

\* [np.linalg.norm(true_pos - a) for a in anchors]
TrueDistances(anchors_, true_pos_) ==
    [i \in 1..Len(anchors_) |-> SRoot(Norm(true_pos_, anchors_[i]))]

\* A point of the grid as a point with such coordinates.
SPoint(p) == <<SInt(p[1]), SInt(p[2])>>

\* As perturb, with both samples of mode two added at the first index drawn.
perturb_sameindex(true_distances_, case_, r) ==
    LET copy == true_distances_
        noisy_distances ==
            IF case_ = 1
            THEN [copy EXCEPT ![r.indices[1] + 1] = SAdd(@, SInt(r.samples[1]))]
            ELSE IF case_ = 2
            THEN LET first == [copy EXCEPT ![r.indices[1] + 1] =
                                   SAdd(@, SInt(r.samples[1]))]
                 IN  [first EXCEPT ![r.indices[1] + 1] =
                          SAdd(@, SInt(r.samples[2]))]
            ELSE IF case_ = 3
            THEN [i \in 1..Len(copy) |-> SAdd(copy[i], SInt(r.samples[i]))]
            ELSE copy
    IN  [true_distances |-> true_distances_, noisy_distances |-> noisy_distances]

\* As perturb, without the copy: noisy_distances is the list
\* true_distances itself, which the += of modes one and two then change.
perturb_alias(true_distances_, case_, r) ==
    LET copy == true_distances_
        noisy_distances ==
            IF case_ = 1
            THEN [copy EXCEPT ![r.indices[1] + 1] = SAdd(@, SInt(r.samples[1]))]
            ELSE IF case_ = 2
            THEN LET first == [copy EXCEPT ![r.indices[1] + 1] =
                                   SAdd(@, SInt(r.samples[1]))]
                 IN  [first EXCEPT ![r.indices[2] + 1] =
                          SAdd(@, SInt(r.samples[2]))]
            ELSE IF case_ = 3
            THEN [i \in 1..Len(copy) |-> SAdd(copy[i], SInt(r.samples[i]))]
            ELSE copy
    IN  [true_distances |-> IF case_ \in {1, 2} THEN noisy_distances
                            ELSE true_distances_,
         noisy_distances |-> noisy_distances]

\* noisy_distances = true_distances.copy() and the if / elif on case that
\* adds the samples of r; the same statements in the three experiments.
\* The result holds the list true_distances as the statements leave it.
perturb(true_distances_, case_, r) ==
    LET copy == true_distances_
        noisy_distances ==
            IF case_ = 1
            THEN [copy EXCEPT ![r.indices[1] + 1] = SAdd(@, SInt(r.samples[1]))]
            ELSE IF case_ = 2
            THEN LET first == [copy EXCEPT ![r.indices[1] + 1] =
                                   SAdd(@, SInt(r.samples[1]))]
                 IN  [first EXCEPT ![r.indices[2] + 1] =
                          SAdd(@, SInt(r.samples[2]))]
            ELSE IF case_ = 3
            THEN [i \in 1..Len(copy) |-> SAdd(copy[i], SInt(r.samples[i]))]
            ELSE copy
    IN  [true_distances |-> true_distances_, noisy_distances |-> noisy_distances]

\* As simulate_error_trial, with the error put at the front of the list.
simulate_error_trial_front(H, r) ==
    LET P == perturb(H.true_distances, H.case, r)
        nd == P.noisy_distances
        res == trilateration(H.anchors[1], nd[1], H.anchors[2], nd[2],
                             H.anchors[3], nd[3])
    IN  IF Raised(res)
        THEN [true_distances |-> P.true_distances, noisy |-> nd,
              position |-> None, errors |-> H.errors, raised |-> res.raised]
        ELSE [true_distances |-> P.true_distances, noisy |-> nd,
              position |-> res.value,
              errors |-> <<SNorm(res.value[1], SPoint(H.true_pos))>>
                             \o H.errors,
              raised |-> NoExc]

\* One pass of the trial loop of simulate_error on the draw r.  H holds
\* anchors, true_pos, true_distances, case and errors; the result holds
\* what the pass leaves.
simulate_error_trial(H, r) ==
    LET P == perturb(H.true_distances, H.case, r)
        nd == P.noisy_distances
        res == trilateration(H.anchors[1], nd[1], H.anchors[2], nd[2],
                             H.anchors[3], nd[3])
    IN  IF Raised(res)
        THEN [true_distances |-> P.true_distances, noisy |-> nd,
              position |-> None, errors |-> H.errors, raised |-> res.raised]
        ELSE [true_distances |-> P.true_distances, noisy |-> nd,
              position |-> res.value,
              errors |-> Append(H.errors,
                                SNorm(res.value[1], SPoint(H.true_pos))),
              raised |-> NoExc]

\* One pass of the trial loop of simulate_errors on the draw r.
simulate_errors_trial(H, r) ==
    LET P == perturb(H.true_distances, H.case, r)
        nd == P.noisy_distances
        res == trilateration(H.anchors[1], nd[1], H.anchors[2], nd[2],
                             H.anchors[3], nd[3])
    IN  IF Raised(res)
        THEN [true_distances |-> P.true_distances, noisy |-> nd,
              position |-> None, errors |-> H.errors, raised |-> res.raised]
        ELSE [true_distances |-> P.true_distances, noisy |-> nd,
              position |-> res.value,
              errors |-> Append(H.errors,
                                SNorm(res.value[1], SPoint(H.true_pos))),
              raised |-> NoExc]

\* As append_mean, with nothing appended for a level without errors.
append_mean_skip(mean_errors_, errors_) ==
    IF errors_ # <<>> THEN Append(mean_errors_, Mean(errors_)) ELSE mean_errors_

\* mean_errors.append(np.mean(errors) if errors else np.nan)
append_mean(mean_errors_, errors_) ==
    Append(mean_errors_, IF errors_ # <<>> THEN Mean(errors_) ELSE NaN)

\* The arguments of the runs.
Cases == {1, 2, 3}
NoiseLevelLists == {<<>>, <<0>>, <<10>>, <<0, 10>>}
NOISE_LEVELS == {0, 2, 4, 6, 8, 10}
MapTruths == {<<0, 4>>, <<3, 0>>, <<-3, 2>>}

\* The module global anchors that simulate_error and simulate_errors read:
\* the layout of the files and, for the except branch, a collinear one.
Layouts == {RefAnchors, AlignedExample}

simOther ==
    <<args, ret, sel_in, sel_out, distances, distance_entries, circles, star,
      star_label, dashed_line, distance_text, corridor_line, corridor_text,
      result_label, received_label, selected_index, star_pos,
      selected_star, latest_data, d_index, closest_valid, count,
      circle_color, text_labels, response, solver_call, exc, sel_pre,
      sel_post, edits, serverVars, poll_thread>>

NoOther ==
    /\ NoPoll
    /\ args = None /\ sel_in = <<>>
    /\ sel_out = [overall |-> None, gated |-> None]
    /\ distances = <<>> /\ distance_entries = <<>> /\ circles = <<>>
    /\ star = None /\ star_label = None /\ dashed_line = None
    /\ distance_text = None /\ corridor_line = None /\ corridor_text = None
    /\ result_label = [text |-> "", pos |-> None] /\ received_label = ""
    /\ selected_index = None /\ star_pos = <<0, 0>> /\ selected_star = FALSE
    /\ latest_data = <<>> /\ d_index = 0 /\ closest_valid = <<>>
    /\ count = 0 /\ circle_color = <<>> /\ text_labels = <<>>
    /\ response = None /\ solver_call = None /\ exc = NoExc
    /\ sel_pre = None /\ sel_post = None /\ edits = 0

\* simulate_error(case, trials) is entered: the module globals and
\* errors = [].
InitBoxplot ==
    /\ prog = "boxplot"
    /\ case \in Cases /\ trials \in 0..MaxTrials /\ noise_levels = <<>>
    /\ anchors \in Layouts /\ true_pos = RefTruth
    /\ true_distances = TrueDistances(anchors, RefTruth)
    /\ noisy = <<>> /\ position = None /\ errors = <<>> /\ mean_errors = <<>>
    /\ level = 0 /\ trial = 0 /\ pc = "trials" /\ drawn = None /\ log = <<>>
    /\ ret = None /\ NoOther /\ NoServer

\* simulate_errors(noise_levels, case, trials) is entered: the module
\* globals and mean_errors = [].
InitLine ==
    /\ prog = "line"
    /\ case \in Cases /\ trials \in 0..MaxTrials
    /\ noise_levels \in NoiseLevelLists
    /\ anchors \in Layouts /\ true_pos = RefTruth
    /\ true_distances = TrueDistances(anchors, RefTruth)
    /\ noisy = <<>> /\ position = None /\ errors = <<>> /\ mean_errors = <<>>
    /\ level = 0 /\ trial = 0 /\ pc = "levels" /\ drawn = None /\ log = <<>>
    /\ ret = None /\ NoOther /\ NoServer

\* simulate_and_plot(case, noise_level, trial_index, TRUE_POS) is entered;
\* noise_levels holds its noise_level.
InitMap ==
    /\ prog = "map"
    /\ case \in Cases /\ trials = 1
    /\ \E n \in NOISE_LEVELS : noise_levels = <<n>>
    /\ anchors = RefAnchors /\ true_pos \in MapTruths
    /\ true_distances = <<>>
    /\ noisy = <<>> /\ position = None /\ errors = <<>> /\ mean_errors = <<>>
    /\ level = 0 /\ trial = 0 /\ pc = "call" /\ drawn = None /\ log = <<>>
    /\ ret = None /\ NoOther /\ NoServer

Locals == [anchors |-> anchors, true_pos |-> true_pos,
           true_distances |-> true_distances, case |-> case,
           errors |-> errors]

LogEntry(r, T) ==
    [level |-> level, lo |-> r.lo, hi |-> r.hi,
     raised |-> T.raised,
     error |-> IF T.raised = NoExc THEN Some(T.errors[Len(T.errors)]) ELSE None]

\* simulate_error: one pass of `for _ in range(trials)`.
boxplot_trial ==
    /\ prog = "boxplot" /\ pc = "trials" /\ trial < trials
    /\ \E r \in draws_boxplot(case) :
         LET T == simulate_error_trial(Locals, r)
         IN  /\ true_distances' = T.true_distances
             /\ noisy' = T.noisy
             /\ position' = T.position
             /\ errors' = T.errors
             /\ drawn' = Some(r)
             /\ log' = Append(log, LogEntry(r, T))
    /\ trial' = trial + 1
    /\ UNCHANGED <<prog, anchors, case, trials, noise_levels, true_pos,
                   mean_errors, level, pc, simOther>>

\* simulate_error: `return errors` after the loop.
boxplot_return ==
    /\ prog = "boxplot" /\ pc = "trials" /\ trial = trials
    /\ ret' = Some(errors)
    /\ pc' = "done"
    /\ UNCHANGED <<prog, anchors, case, trials, noise_levels, true_pos,
                   true_distances, noisy, position, errors, mean_errors,
                   level, trial, drawn, log>>
    /\ UNCHANGED <<args, sel_in, sel_out, distances, distance_entries,
                   circles, star, star_label, dashed_line, distance_text,
                   corridor_line, corridor_text, result_label,
                   received_label, selected_index, star_pos, selected_star,
                   latest_data, d_index, closest_valid, count, circle_color,
                   text_labels, response, solver_call, exc, sel_pre,
                   sel_post, edits, serverVars, poll_thread>>

\* simulate_errors: `for noise in noise_levels` takes the next level and
\* errors = [].
line_level ==
    /\ prog = "line" /\ pc = "levels" /\ level < Len(noise_levels)
    /\ errors' = <<>>
    /\ trial' = 0
    /\ pc' = "trials"
    /\ UNCHANGED <<prog, anchors, case, trials, noise_levels, true_pos,
                   true_distances, noisy, position, mean_errors, level,
                   drawn, log, simOther>>

\* simulate_errors: one pass of `for _ in range(trials)`.
line_trial ==
    /\ prog = "line" /\ pc = "trials" /\ trial < trials
    /\ \E r \in draws_line(case, noise_levels[level + 1]) :
         LET T == simulate_errors_trial(Locals, r)
         IN  /\ true_distances' = T.true_distances
             /\ noisy' = T.noisy
             /\ position' = T.position
             /\ errors' = T.errors
             /\ drawn' = Some(r)
             /\ log' = Append(log, LogEntry(r, T))
    /\ trial' = trial + 1
    /\ UNCHANGED <<prog, anchors, case, trials, noise_levels, true_pos,
                   mean_errors, level, pc, simOther>>

\* simulate_errors: the mean of the level is appended after its trials.
line_mean ==
    /\ prog = "line" /\ pc = "trials" /\ trial = trials
    /\ mean_errors' = append_mean(mean_errors, errors)
    /\ level' = level + 1
    /\ pc' = "levels"
    /\ UNCHANGED <<prog, anchors, case, trials, noise_levels, true_pos,
                   true_distances, noisy, position, errors, trial, drawn,
                   log, simOther>>

\* simulate_errors: `return mean_errors` after the last level.
line_return ==
    /\ prog = "line" /\ pc = "levels" /\ level = Len(noise_levels)
    /\ ret' = Some(mean_errors)
    /\ pc' = "done"
    /\ UNCHANGED <<prog, anchors, case, trials, noise_levels, true_pos,
                   true_distances, noisy, position, errors, mean_errors,
                   level, trial, drawn, log>>
    /\ UNCHANGED <<args, sel_in, sel_out, distances, distance_entries,
                   circles, star, star_label, dashed_line, distance_text,
                   corridor_line, corridor_text, result_label,
                   received_label, selected_index, star_pos, selected_star,
                   latest_data, d_index, closest_valid, count, circle_color,
                   text_labels, response, solver_call, exc, sel_pre,
                   sel_post, edits, serverVars, poll_thread>>

\* simulate_and_plot: the true distances, the noisy copy and the solver
\* call; the figure is not modelled.
simulate_and_plot ==
    /\ prog = "map" /\ pc = "call"
    /\ \E r \in draws_map(case, noise_levels[1]) :
         LET td == TrueDistances(anchors, true_pos)
             P == perturb(td, case, r)
             nd == P.noisy_distances
             res == trilateration(anchors[1], nd[1], anchors[2], nd[2],
                                  anchors[3], nd[3])
         IN  /\ true_distances' = P.true_distances
             /\ noisy' = nd
             /\ position' = res.value
             /\ drawn' = Some(r)
             /\ log' = Append(log,
                   [level |-> 0, lo |-> r.lo, hi |-> r.hi,
                    raised |-> res.raised,
                    error |-> IF Raised(res) THEN None
                              ELSE Some(SNorm(res.value[1], SPoint(true_pos)))])
    /\ trial' = trial + 1
    /\ pc' = "done"
    /\ UNCHANGED <<prog, anchors, case, trials, noise_levels, true_pos,
                   errors, mean_errors, level, simOther>>

InitSim == InitBoxplot \/ InitLine \/ InitMap

NextSim ==
    \/ boxplot_trial \/ boxplot_return
    \/ line_level \/ line_trial \/ line_mean \/ line_return
    \/ simulate_and_plot

SpecSim == InitSim /\ [][NextSim]_vars

----------------------------------------------------------------------------
(* The distance server, test_server_uwb.py, thread by thread: every        *)
(* request is handled by a thread of its own and a step is one statement   *)
(* of a handler.                                                           *)

MaxRequests == 3

\* Two lists of readings that are posted.
Posted == {<<Reading(2, 97)>>, <<Reading(8, 109), Reading(3, 25)>>}

\* The bodies posted to /send: a JSON object with "distances", one without
\* it, a JSON array, and a body for which request.get_json() raises.
ServerBodies ==
    {[kind |-> "object", distances |-> Some(q)] : q \in Posted}
        \cup {[kind |-> "object", distances |-> None],
              [kind |-> "array", distances |-> None],
              [kind |-> "invalid", distances |-> None]}

Idle == [route |-> "none", data |-> None, pc |-> "idle", status |-> 0,
         body |-> None]

\* As assign_latest, with latest_data reset before data.get is tried.
assign_latest_reset(data, latest_data_) ==
    IF data.kind = "object"
    THEN [latest_data |-> IF data.distances = None THEN <<>>
                          ELSE data.distances[1],
          status |-> 200]
    ELSE [latest_data |-> <<>>, status |-> 400]

\* latest_data = data.get("distances", []) inside `with lock`: a dict gives
\* its "distances" or [], anything else has no get and the handler answers
\* 400 from its except clause.
assign_latest(data, latest_data_) ==
    IF data.kind = "object"
    THEN [latest_data |-> IF data.distances = None THEN <<>>
                          ELSE data.distances[1],
          status |-> 200]
    ELSE [latest_data |-> latest_data_, status |-> 400]

\* The next thread takes a request; the threads start in order.
Free(t) ==
    /\ threads[t].route = "none"
    /\ IF t = 1 THEN TRUE ELSE threads[t - 1].route # "none"

serverOther ==
    <<args, ret, sel_in, sel_out, anchors, distances, distance_entries,
      circles, star, star_label, dashed_line, distance_text, corridor_line,
      corridor_text, result_label, received_label, selected_index, star_pos,
      selected_star, d_index, closest_valid, count, circle_color,
      text_labels, response, solver_call, exc, sel_pre, sel_post, edits,
      simVars, poll_thread>>

InitServer ==
    /\ prog = "server"
    /\ lock = 0
    /\ threads = [t \in 1..MaxRequests |-> Idle]
    /\ writes = <<>> /\ completed = <<>>
    /\ anchors = <<>> /\ ret = None
    /\ NoOther /\ NoSim

\* receive_data: data = request.get_json()
send_get_json(t) ==
    /\ prog = "server" /\ Free(t)
    /\ \E data \in ServerBodies :
         threads' = [threads EXCEPT ![t] =
             [route |-> "send", data |-> Some(data),
              pc |-> IF data.kind = "invalid" THEN "respond" ELSE "lock",
              status |-> IF data.kind = "invalid" THEN 400 ELSE 0,
              body |-> None]]
    /\ UNCHANGED <<prog, latest_data, lock, writes, completed, serverOther>>

\* receive_data: `with lock` is entered.
send_enter(t) ==
    /\ prog = "server"
    /\ threads[t].route = "send" /\ threads[t].pc = "lock" /\ lock = 0
    /\ lock' = t
    /\ threads' = [threads EXCEPT ![t].pc = "assign"]
    /\ UNCHANGED <<prog, latest_data, writes, completed, serverOther>>

\* receive_data: the assignment inside `with lock`.
send_assign(t) ==
    /\ prog = "server"
    /\ threads[t].route = "send" /\ threads[t].pc = "assign"
    /\ \E r \in {assign_latest(threads[t].data[1], latest_data)} :
         /\ latest_data' = r.latest_data
         /\ threads' = [threads EXCEPT ![t].pc = "exit", ![t].status = r.status]
         /\ writes' = IF r.status = 200 THEN Append(writes, t) ELSE writes
    /\ UNCHANGED <<prog, lock, completed, serverOther>>

\* receive_data: `with lock` is left, normally or by the exception.
send_exit(t) ==
    /\ prog = "server"
    /\ threads[t].route = "send" /\ threads[t].pc = "exit"
    /\ lock' = 0
    /\ threads' = [threads EXCEPT ![t].pc = "respond"]
    /\ UNCHANGED <<prog, latest_data, writes, completed, serverOther>>

\* receive_data: the response, 200 or 400, goes out.
send_respond(t) ==
    /\ prog = "server"
    /\ threads[t].route = "send" /\ threads[t].pc = "respond"
    /\ threads' = [threads EXCEPT ![t].pc = "done"]
    /\ completed' = Append(completed, t)
    /\ UNCHANGED <<prog, latest_data, lock, writes, serverOther>>

\* send_latest: a GET /get arrives.
get_arrive(t) ==
    /\ prog = "server" /\ Free(t)
    /\ threads' = [threads EXCEPT ![t] =
           [route |-> "get", data |-> None, pc |-> "lock", status |-> 0,
            body |-> None]]
    /\ UNCHANGED <<prog, latest_data, lock, writes, completed, serverOther>>

\* send_latest: `with lock` is entered.
get_enter(t) ==
    /\ prog = "server"
    /\ threads[t].route = "get" /\ threads[t].pc = "lock" /\ lock = 0
    /\ lock' = t
    /\ threads' = [threads EXCEPT ![t].pc = "read"]
    /\ UNCHANGED <<prog, latest_data, writes, completed, serverOther>>

\* send_latest: jsonify({"distances": latest_data}) inside `with lock`.
get_read(t) ==
    /\ prog = "server"
    /\ threads[t].route = "get" /\ threads[t].pc = "read"
    /\ threads' = [threads EXCEPT ![t].pc = "exit",
                                  ![t].body = Some(latest_data),
                                  ![t].status = 200]
    /\ UNCHANGED <<prog, latest_data, lock, writes, completed, serverOther>>

\* send_latest: the return leaves `with lock`.
get_exit(t) ==
    /\ prog = "server"
    /\ threads[t].route = "get" /\ threads[t].pc = "exit"
    /\ lock' = 0
    /\ threads' = [threads EXCEPT ![t].pc = "respond"]
    /\ UNCHANGED <<prog, latest_data, writes, completed, serverOther>>

\* send_latest: the response goes out.
get_respond(t) ==
    /\ prog = "server"
    /\ threads[t].route = "get" /\ threads[t].pc = "respond"
    /\ threads' = [threads EXCEPT ![t].pc = "done"]
    /\ completed' = Append(completed, t)
    /\ UNCHANGED <<prog, latest_data, lock, writes, serverOther>>

NextServer ==
    \E t \in 1..MaxRequests :
        \/ send_get_json(t) \/ send_enter(t) \/ send_assign(t)
        \/ send_exit(t) \/ send_respond(t)
        \/ get_arrive(t) \/ get_enter(t) \/ get_read(t)
        \/ get_exit(t) \/ get_respond(t)

SpecServer == InitServer /\ [][NextServer]_vars

----------------------------------------------------------------------------
(* Claims about the solver (SpecSolver) *)

Collinear(ps) ==
    (ps[2][1] - ps[1][1]) * (ps[3][2] - ps[1][2])
        - (ps[2][2] - ps[1][2]) * (ps[3][1] - ps[1][1]) = 0

SolverCopies == {"manager", "auto", "boxplot", "line", "map"}

\* C1: for three exactly collinear anchors (two or three of them may
\* coincide) and any three distances, every copy of the solver raises
\* ValueError("Anchors are aligned") and returns no position.
C1_AlignedAlwaysRaises ==
    (prog = "solver" /\ ret # None /\ Collinear(args.p)) =>
        \A c \in SolverCopies :
            /\ ret[1][c].raised = AnchorsAligned
            /\ ret[1][c].value = None

\* (0,0), (1,0), (2,0) with distances 1 m, 2 m and 0 m has been refused.
C1_Witness ==
    /\ prog = "solver" /\ ret # None
    /\ args.p = AlignedExample
    /\ args.d = <<Metres(1), Metres(2), 0>>
    /\ ret[1].manager = Raise(AnchorsAligned)
    /\ ret[1].boxplot = Raise(AnchorsAligned)

\* C2: for non-collinear anchors and the exact distances of a true position,
\* the solver returns exactly that position; the reference anchors with the
\* true position (0, 2) return (0, 2).
C2_RoundTrip ==
    (prog = "solver" /\ ret # None /\ args.truth # None
        /\ ~Collinear(args.p)) =>
        ret[1].line = Return(<<FInt(args.truth[1][1]), FInt(args.truth[1][2])>>)

C2_Witness ==
    /\ prog = "solver" /\ ret # None
    /\ args.p = RefAnchors /\ args.truth = Some(RefTruth)
    /\ args.d = <<97, 109, 25>>
    /\ ret[1].line = Return(<<FInt(0), FInt(4)>>)

\* The function the specification gives for the solver, from its formulas.
ReferenceSolve(p, d) ==
    LET A == 2 * (p[2][1] - p[1][1])
        B == 2 * (p[2][2] - p[1][2])
        C == Sq(d[1]) - Sq(d[2]) - p[1][1] * p[1][1] + p[2][1] * p[2][1]
                - p[1][2] * p[1][2] + p[2][2] * p[2][2]
        D == 2 * (p[3][1] - p[1][1])
        E == 2 * (p[3][2] - p[1][2])
        F == Sq(d[1]) - Sq(d[3]) - p[1][1] * p[1][1] + p[3][1] * p[3][1]
                - p[1][2] * p[1][2] + p[3][2] * p[3][2]
        denom == A * E - B * D
    IN  IF denom = 0 THEN None
        ELSE Some(<<Frac(C * E - B * F, denom), Frac(A * F - C * D, denom)>>)

\* C3: every copy of the solver computes the specified function: it fails
\* exactly when denom = 0 and otherwise returns
\* ((C*E - B*F)/denom, (A*F - C*D)/denom).
C3_CopiesComputeReference ==
    (prog = "solver" /\ ret # None) =>
        \A c \in SolverCopies :
            /\ ret[1][c].value = ReferenceSolve(args.p, args.d)
            /\ Raised(ret[1][c]) <=> ReferenceSolve(args.p, args.d) = None

\* Noisy distances on the reference anchors give a position off the grid,
\* the same in every copy: (-7/6, -23/6) half metres.
C3_Witness ==
    /\ prog = "solver" /\ ret # None
    /\ args.p = RefAnchors /\ args.d = <<Metres(1), Metres(2), 0>>
    /\ \A c \in SolverCopies : ret[1][c].value = ret[1].auto.value
    /\ ret[1].auto.value # None
    /\ ret[1].auto.value[1][1][2] # 1

----------------------------------------------------------------------------
(* Claims about the selections as functions (SpecSelection) *)

\* (d1, i1) before (d2, i2): by distance, equal distances by index.
Before(d1, i1, d2, i2) == d1 < d2 \/ (d1 = d2 /\ i1 < i2)

\* C5: the closest-3-overall step selects the first three indices of the
\* stable ascending sort by distance: three valid indices in ascending
\* (distance, index) order with every other index behind the third;
\* [10, 3, 7, 1, 20] selects [3, 1, 2].
C5_ClosestThreeOverall ==
    (prog = "selection" /\ sel_out.overall # None) =>
        LET idx == sel_out.overall[1].d_index
            D(i) == sel_in[i + 1]
        IN  /\ Len(idx) = 3
            /\ \A k \in 1..3 : idx[k] \in 0..(Len(sel_in) - 1)
            /\ \A k \in 1..2 : Before(D(idx[k]), idx[k], D(idx[k + 1]), idx[k + 1])
            /\ \A j \in 0..(Len(sel_in) - 1) :
                   j \notin {idx[1], idx[2], idx[3]} =>
                       Before(D(idx[3]), idx[3], D(j), j)
            /\ sel_in = <<Metres(10), Metres(3), Metres(7), Metres(1), Metres(20)>>
                   => idx = <<3, 1, 2>>

C5_Witness ==
    /\ prog = "selection" /\ sel_out.overall # None
    /\ sel_in = <<Metres(10), Metres(3), Metres(7), Metres(1), Metres(20)>>
    /\ sel_out.overall[1].d_index = <<3, 1, 2>>

InRange(l) == {i \in 0..(Len(l) - 1) : l[i + 1] <= Metres(10)}

\* C7: the range-gated steps select exactly the min(3, q) closest of the q
\* anchors with distance <= 10 m (10 m included), in ascending (distance,
\* index) order, never one further than 10 m; count is min(3, q); the
\* full-triple colour is given exactly when count is 3.
C7_RangeGated ==
    (prog = "selection" /\ sel_out.gated # None) =>
        \A c \in {"movable", "sinus"} :
            LET r == sel_out.gated[1][c]
                cv == r.closest_valid
                q == Cardinality(InRange(sel_in))
                chosen == {cv[k][1] : k \in 1..Len(cv)}
            IN  /\ r.count = Min(3, q)
                /\ Len(cv) = r.count
                /\ \A k \in 1..Len(cv) :
                       /\ cv[k][1] \in InRange(sel_in)
                       /\ cv[k][2] = sel_in[cv[k][1] + 1]
                /\ \A k \in 1..(Len(cv) - 1) :
                       Before(cv[k][2], cv[k][1], cv[k + 1][2], cv[k + 1][1])
                /\ \A j \in InRange(sel_in) \ chosen :
                       /\ Len(cv) = 3
                       /\ Before(cv[3][2], cv[3][1], sel_in[j + 1], j)
                /\ (r.circle_color = (IF c = "movable" THEN "green" ELSE "purple"))
                       <=> r.count = 3

\* [10, 12, 1, 10]: both anchors at exactly 10 m are selected, in index
\* order, and the one at 12 m is not.
C7_Witness ==
    /\ prog = "selection" /\ sel_out.gated # None
    /\ sel_in = <<Metres(10), Metres(12), Metres(1), Metres(10)>>
    /\ sel_out.gated[1].movable.closest_valid
           = << <<2, Metres(1)>>, <<0, Metres(10)>>, <<3, Metres(10)>> >>
    /\ sel_out.gated[1].sinus.count = 3

----------------------------------------------------------------------------
(* Claims about the running programs (Spec) *)

\* What the anchor manager shows of its estimate: the star, its coordinate
\* label, the dashed line to the reference line and the label of that line.
Estimate == <<star, star_label, dashed_line, distance_text>>

\* C4: a step of the anchor manager in which update_position() fails (the
\* selected three anchors are aligned, or an Entry does not hold a number)
\* leaves the displayed estimate -- star, coordinate label and
\* reference-line marker -- exactly as it was before the step.
C4_FailedUpdateKeepsEstimate ==
    [][(prog = "manager" /\ exc'.type = "ValueError") =>
           /\ star' = star /\ star_label' = star_label
           /\ dashed_line' = dashed_line /\ distance_text' = distance_text]_vars

\* A2 has been dragged onto the line of A1 and A3: the solver refused the
\* three anchors and the estimate of the earlier solve is still shown.
C4_Witness ==
    /\ prog = "manager"
    /\ exc = AnchorsAligned
    /\ result_label = [text |-> "Anchors are aligned", pos |-> None]
    /\ solver_call # None /\ Collinear(solver_call[1].p)
    /\ star # None /\ star_label # None /\ dashed_line # None

Distinct(s) == \A j, k \in DOMAIN s : j # k => s[j] # s[k]

\* C6: what a selection leaves is three pairwise distinct valid anchor
\* indices, or fewer than three together with the report of how many
\* qualify (the count and its tier colour); never a repeated index, never
\* more than three.  The manager selects only with at least 3 anchors and
\* says "Need at least 3 anchors" otherwise.
C6_ThreeDistinctOrReport ==
    /\ (prog = "manager" /\ d_index # None) =>
           /\ Len(d_index[1]) = 3 /\ Distinct(d_index[1])
           /\ \A k \in 1..3 :
                  d_index[1][k] \in 0..(Len(sel_post[1].anchors) - 1)
    /\ (prog = "manager" /\ Len(anchors) < 3) =>
           result_label.text = "Need at least 3 anchors"
    /\ (prog = "movable" /\ closest_valid # None) =>
           LET idx == [k \in DOMAIN closest_valid[1] |-> closest_valid[1][k][1]]
           IN  /\ Len(idx) <= 3 /\ Distinct(idx)
               /\ \A k \in DOMAIN idx : idx[k] \in 0..(Len(anchors) - 1)
               /\ count = Len(idx)
               /\ Len(idx) = 3 <=> circle_color = "green"
               /\ Len(idx) < 3 =>
                      circle_color = (IF count = 2 THEN "yellow"
                                      ELSE IF count = 1 THEN "red" ELSE "None")

\* The star dragged to (6, -1.5), more than three anchors within 10 m:
\* three distinct ones are selected.
C6_Witness ==
    /\ prog = "movable" /\ star_pos = <<12, -3>>
    /\ Cardinality({i \in DOMAIN distances : distances[i] <= Metres(10)}) > 3
    /\ closest_valid # None /\ Len(closest_valid[1]) = 3
    /\ Cardinality({closest_valid[1][k][1] : k \in 1..3}) = 3
    /\ count = 3 /\ circle_color = "green"

\* C9: the selection step leaves the anchors list and the distances list as
\* they were immediately before it, in update_position() and in
\* update_circles().
C9_SelectionKeepsInputs ==
    (prog \in {"manager", "movable"} /\ sel_pre # None) =>
        /\ sel_post # None
        /\ sel_post[1].anchors = sel_pre[1].anchors
        /\ sel_post[1].distances = sel_pre[1].distances

\* Four anchors whose distances are not in ascending order went through
\* the selection of the manager and are as before.
C9_Witness ==
    /\ prog = "manager" /\ sel_pre # None /\ sel_post = sel_pre
    /\ Len(sel_pre[1].distances) = 4
    /\ \E k \in 1..3 : sel_pre[1].distances[k] > sel_pre[1].distances[k + 1]
    /\ d_index # None /\ d_index[1] # <<0, 1, 2>>

\* C10: the solver is called with three anchor/distance pairs only: by the
\* manager when at least 3 anchors exist (and its lists never hold fewer
\* than 3), by the poll loop when the snapshot holds exactly 3 readings.
C10_SolverCalledWithThree ==
    /\ solver_call # None =>
           /\ Len(solver_call[1].p) = 3 /\ Len(solver_call[1].d) = 3
           /\ prog = "manager" => solver_call[1].available >= 3
           /\ prog = "poll" => solver_call[1].available = 3
    /\ prog = "manager" =>
           Len(anchors) >= 3 /\ Len(distances) = Len(anchors)

\* After a solved snapshot the server holds one of four readings: the loop
\* has refused it without a call of the solver.
C10_Witness ==
    /\ prog = "poll" /\ Len(latest_data) = 4
    /\ exc = Exc("ValueError", "Beklenen 3 mesafe verisi yok")
    /\ solver_call # None /\ solver_call[1].available = 3

\* C11: in the anchor manager 3 <= len(anchors) <= 10 and len(anchors) =
\* len(distances) after every step; a step that lengthens the lists appends
\* one anchor with distance 5.0 and happens only below 10 anchors; a step
\* that shortens them drops the last anchor and its distance and happens
\* only above 3; the refusals ("Max 10 anchors allowed", "Need minimum 3
\* anchors") leave both lists as they were.
C11_AnchorSetBounds ==
    [][prog = "manager" =>
         LET n == Len(anchors)  m == Len(anchors')
         IN  /\ 3 <= m /\ m <= 10 /\ Len(distances') = m
             /\ m \in {n - 1, n, n + 1}
             /\ m = n + 1 =>
                    /\ n < 10
                    /\ SubSeq(anchors', 1, n) = anchors
                    /\ SubSeq(distances', 1, n) = distances
                    /\ distances'[m] = Metres(5)
             /\ m = n - 1 =>
                    /\ n > 3
                    /\ anchors' = SubSeq(anchors, 1, m)
                    /\ distances' = SubSeq(distances, 1, m)
             /\ (result_label'.text = "Max 10 anchors allowed"
                   /\ result_label.text # "Max 10 anchors allowed") =>
                    n = 10 /\ anchors' = anchors /\ distances' = distances
             /\ (result_label'.text = "Need minimum 3 anchors"
                   /\ result_label.text # "Need minimum 3 anchors") =>
                    n = 3 /\ anchors' = anchors /\ distances' = distances]_vars

\* Seven anchors have been added and the eighth was refused.
C11_Witness ==
    /\ prog = "manager" /\ Len(anchors) = 10 /\ Len(distances) = 10
    /\ result_label.text = "Max 10 anchors allowed"
    /\ distances[10] = Metres(5)


----------------------------------------------------------------------------
(* Claims about the error experiments (SpecSim) *)

\* The indices the last trial drew, and the sample drawn for index i.
Chosen ==
    IF case = 3 THEN {0, 1, 2}
    ELSE {drawn[1].indices[k] : k \in 1..Len(drawn[1].indices)}

SampleOf(i) ==
    IF case = 3 THEN drawn[1].samples[i + 1]
    ELSE drawn[1].samples[CHOOSE k \in 1..Len(drawn[1].indices) :
                             drawn[1].indices[k] = i]

\* C12: after a trial of any of the three experiments, mode one has drawn
\* exactly one of the indices 0..2, mode two exactly two distinct indices
\* and mode all every index; each index drawn holds its true distance plus
\* its own sample, and every other index holds its true distance.
C12_NoiseInjectionByMode ==
    drawn # None =>
        /\ Chosen \subseteq {0, 1, 2}
        /\ Cardinality(Chosen) = case
        /\ Len(drawn[1].samples) = case
        /\ \A i \in 0..2 :
              noisy[i + 1] = IF i \in Chosen
                             THEN SAdd(true_distances[i + 1], SInt(SampleOf(i)))
                             ELSE true_distances[i + 1]

\* A trial of mode two whose two samples differ and changed two distances.
C12_Witness ==
    /\ drawn # None /\ case = 2
    /\ drawn[1].samples[1] # drawn[1].samples[2]
    /\ Cardinality({i \in 1..3 : noisy[i] # true_distances[i]}) = 2

\* The noise the last trial left at position i, the level of the last
\* trial, and lo <= a <= hi for a rational a and integers lo, hi.
NoiseAt(i) == SSub(noisy[i], true_distances[i])
LastLevel == log[Len(log)].level
Between(lo, a, hi) ==
    /\ SIsRat(a)
    /\ ~FLess(SRat(a), FInt(lo))
    /\ ~FLess(FInt(hi), SRat(a))

C14_NegativeDistanceFailsFast ==
    (drawn # None /\ \E i \in 1..3 : SNegative(noisy[i])) =>
        /\ position = None
        /\ log[Len(log)].raised.type = "InvalidInputError"

\* The number of trials so far in which the solver raised.
RECURSIVE NumFailed(_)
NumFailed(l) ==
    IF l = <<>> THEN 0
    ELSE (IF Raised(l[Len(l)]) THEN 1 ELSE 0) + NumFailed(SubSeq(l, 1, Len(l) - 1))

\* C15: in simulate_error every trial either appends exactly one error,
\* the norm of the distance between the position found and the ground
\* truth, after the errors of the earlier trials, or (the solver raised)
\* leaves the list as it is and the run goes on; the function returns only
\* after all n trials, and returns that list, of length n minus the
\* number of failed trials.
C15_RawCollection ==
    [][prog = "boxplot" =>
        /\ trial' = trial + 1 =>
              /\ trial < trials
              /\ Raised(log'[Len(log')]) <=> Collinear(anchors)
              /\ IF Raised(log'[Len(log')])
                 THEN position' = None /\ errors' = errors
                 ELSE /\ position' # None
                      /\ errors' = Append(errors,
                             SNorm(position'[1], SPoint(true_pos)))
        /\ ret' # ret =>
              /\ trial = trials /\ Len(log) = trials
              /\ ret' = Some(errors)
              /\ Len(errors) = trials - NumFailed(log)]_vars

\* A run of two trials on the collinear layout has returned: both trials
\* failed, both were run, and the list returned is empty.
C15_Witness ==
    /\ prog = "boxplot" /\ pc = "done" /\ trials = 2 /\ trial = 2
    /\ NumFailed(log) = 2 /\ ret = Some(<<>>)

\* A run of two trials on the layout of the file has returned two
\* different errors.
C15_BothSucceeded ==
    /\ prog = "boxplot" /\ pc = "done" /\ trials = 2
    /\ Len(ret[1]) = 2 /\ ret[1][1] # ret[1][2]

\* The trials of the level with Python index i, and the errors of those
\* that succeeded, in trial order.
LevelTrials(i) == SelectSeq(log, LAMBDA e : e.level = i)
LevelErrors(i) ==
    LET ok == SelectSeq(log, LAMBDA e : e.level = i /\ ~Raised(e))
    IN  [k \in 1..Len(ok) |-> ok[k].error[1]]

\* C16: when simulate_errors returns, the list returned has one entry per
\* magnitude supplied; the i-th entry comes from the trials of the i-th
\* magnitude, all of which were run: it is NaN if none of them succeeded
\* (also when the trial count is 0) and otherwise the mean of exactly the
\* errors of the trials that succeeded.
C16_SweepCompleteness ==
    (prog = "line" /\ ret # None) =>
        /\ Len(ret[1]) = Len(noise_levels)
        /\ \A i \in 1..Len(noise_levels) :
              /\ Len(LevelTrials(i - 1)) = trials
              /\ \A k \in 1..trials :
                    /\ LevelTrials(i - 1)[k].hi = noise_levels[i]
                    /\ LevelTrials(i - 1)[k].lo = -noise_levels[i]
              /\ ret[1][i] = IF LevelErrors(i - 1) = <<>> THEN NaN
                             ELSE Mean(LevelErrors(i - 1))
              /\ ret[1][i] = NaN <=> LevelErrors(i - 1) = <<>>

\* A sweep over the magnitudes 0 and 5 m with two trials each has returned
\* two means, of two errors each, that differ.
C16_Witness ==
    /\ prog = "line" /\ ret # None /\ noise_levels = <<0, 10>> /\ trials = 2
    /\ ret[1][1].n = 2 /\ ret[1][2].n = 2 /\ ret[1][1] # ret[1][2]

\* A sweep on the collinear layout has returned NaN for both magnitudes,
\* and a sweep with no trials has returned NaN.
C16_AllFailed ==
    /\ prog = "line" /\ ret = Some(<<NaN, NaN>>) /\ trials = 2
    /\ NumFailed(log) = 4

C16_NoTrials ==
    /\ prog = "line" /\ ret = Some(<<NaN, NaN>>) /\ trials = 0
    /\ anchors = RefAnchors

\* C17: no step of simulate_error or simulate_errors changes the anchors,
\* the ground truth or the list of true distances, which stay the
\* distances from the ground truth to the anchors; the noisy list of a
\* trial differs from them by the samples of that trial only.
C17_TruthUnchanged ==
    [][(prog = "boxplot" \/ prog = "line") =>
        /\ anchors' = anchors
        /\ true_pos' = true_pos
        /\ true_distances' = true_distances
        /\ true_distances = TrueDistances(anchors, true_pos)
        /\ trial' = trial + 1 =>
              (\A i \in 1..3 :
                  \/ noisy'[i] = true_distances[i]
                  \/ \E k \in 1..Len(drawn'[1].samples) :
                        noisy'[i] = SAdd(TrueDistances(anchors, true_pos)[i],
                                         SInt(drawn'[1].samples[k])))]_vars

\* The second trial of a level with one noisy index, after a first trial
\* whose noise moved the position: the true distances are as computed
\* from the ground truth, the noisy list is not.
C17_Witness ==
    /\ prog = "line" /\ trial = 2 /\ case = 1 /\ Len(log) = 2
    /\ log[1].error # None /\ log[1].error[1].sq # SInt(0)
    /\ noisy # true_distances
    /\ true_distances = TrueDistances(anchors, true_pos)

\* The error 0 and a mean of n > 0 errors that are all 0.
ZeroError == [sq |-> SInt(0)]
ZeroMean(m) == m.n > 0 /\ \A k \in 1..m.n : m.sum[k] = ZeroError

\* C18: a trial of simulate_errors (symmetric noise) or simulate_and_plot
\* (one-sided noise) at magnitude 0 leaves, in every mode, the noisy list
\* equal to the true distances; on anchors that are not collinear the
\* position found is the ground truth and the error is 0, and the mean
\* that simulate_errors returns for a level of magnitude 0 with at least
\* one trial is the mean of zeros.
C18_ZeroMagnitude ==
    /\ (prog \in {"line", "map"} /\ drawn # None
            /\ noise_levels[LastLevel + 1] = 0) =>
          /\ noisy = true_distances
          /\ noisy = TrueDistances(anchors, true_pos)
          /\ ~Collinear(anchors) =>
                /\ position = Some(SPoint(true_pos))
                /\ log[Len(log)].error = Some(ZeroError)
    /\ (prog = "line" /\ ret # None /\ trials > 0 /\ ~Collinear(anchors)) =>
          \A i \in 1..Len(noise_levels) :
              noise_levels[i] = 0 => (ret[1][i].n = trials /\ ZeroMean(ret[1][i]))

\* A sweep in mode all over the magnitudes 0 and 5 m with two trials each
\* has returned: the first mean is that of two zeros, the second is not.
C18_Witness ==
    /\ prog = "line" /\ ret # None /\ case = 3 /\ trials = 2
    /\ anchors = RefAnchors /\ noise_levels = <<0, 10>>
    /\ ret[1][1] = Mean(<<ZeroError, ZeroError>>)
    /\ ~ZeroMean(ret[1][2])

\* A call of simulate_and_plot at noise level 0 has found the ground truth.
C18_MapZero ==
    /\ prog = "map" /\ drawn # None /\ noise_levels = <<0>>
    /\ position = Some(SPoint(true_pos)) /\ true_pos = <<-3, 2>>

----------------------------------------------------------------------------
(* Claims about the distance server (SpecServer) *)

\* What a /send of thread t stores, the threads answered 200 to a /send in
\* the order of their responses, and the last element of a sequence.
Payload(t) ==
    IF threads[t].data[1].distances = None THEN <<>>
    ELSE threads[t].data[1].distances[1]
Succeeded ==
    SelectSeq(completed,
              LAMBDA t : threads[t].route = "send" /\ threads[t].status = 200)
Last(q) == q[Len(q)]

\* C20 as stated: at every moment latest_data is the payload of the
\* /send that was the last to be answered 200, and [] before any.
C20_LastCompleted ==
    prog = "server" =>
        latest_data = IF Succeeded = <<>> THEN <<>> ELSE Payload(Last(Succeeded))

\* What C20_LastWrite says of one state.
C20_State ==
    /\ latest_data = IF writes = <<>> THEN <<>> ELSE Payload(Last(writes))
    /\ \A t \in 1..MaxRequests :
          /\ lock = t <=> threads[t].pc \in {"assign", "read", "exit"}
          /\ (threads[t].route = "send" /\ threads[t].status = 200) =>
                /\ threads[t].data[1].kind = "object"
                /\ Len(SelectSeq(writes, LAMBDA u : u = t)) = 1
          /\ (threads[t].route = "send" /\ threads[t].status # 200) =>
                Len(SelectSeq(writes, LAMBDA u : u = t)) = 0
          /\ (threads[t].route = "send" /\ threads[t].pc = "done") =>
                threads[t].status = IF threads[t].data[1].kind = "object"
                                    THEN 200 ELSE 400
          /\ threads[t].body # None =>
                threads[t].body[1] \in
                    {<<>>} \cup {Payload(writes[k]) : k \in 1..Len(writes)}
    /\ writes = Succeeded =>
          latest_data = IF Succeeded = <<>> THEN <<>>
                        ELSE Payload(Last(Succeeded))

\* C20, amended: under every interleaving of the handler threads,
\* latest_data is the payload of the /send that was the last to assign it
\* under the lock ([] before any, [] for an object without "distances"),
\* which is the last /send answered 200 whenever the responses went out in
\* the order of the assignments; only a thread holding the lock is inside
\* a with block; a /send answered 400 changes nothing; a /get answers with
\* the whole value stored while it held the lock and changes nothing; an
\* assignment replaces the value stored, read or not.
C20_LastWrite ==
    [][prog = "server" =>
        /\ C20_State'
        /\ \A t \in 1..MaxRequests :
              /\ (threads'[t].status = 400 /\ threads[t].status # 400) =>
                    latest_data' = latest_data
              /\ (threads'[t].body # None /\ threads[t].body = None) =>
                    (lock = t /\ threads'[t].body = Some(latest_data))
              /\ (threads'[t] # threads[t] /\ threads'[t].route = "get") =>
                    latest_data' = latest_data
              /\ Len(writes') > Len(writes) =>
                    latest_data' = Payload(Last(writes'))]_vars

\* Two posts were stored one after the other and answered in the other
\* order; a /get that came later was answered with the second.
C20_Witness ==
    /\ prog = "server" /\ writes = <<1, 2>> /\ completed = <<2, 1, 3>>
    /\ Payload(1) # Payload(2) /\ Payload(2) # <<>>
    /\ threads[3].route = "get" /\ threads[3].body = Some(Payload(2))
    /\ latest_data = Payload(2)

----------------------------------------------------------------------------
(* Claims about the poll loop and the anchor manager (Spec) *)

\* What the poll loop shows, and whether an iteration on a snapshot fails
\* whatever the GET gave: not exactly 3 readings, an anchor id that
\* anchors[id] does not accept, or three anchors on one line.
PollDisplay ==
    <<star, star_label, circles, text_labels, corridor_line, corridor_text,
      received_label>>

SnapshotFails(snapshot) ==
    \/ Len(snapshot) # 3
    \/ \E k \in 1..Len(snapshot) : ~PyIndexOK(anchors, snapshot[k].anchor_id)
    \/ Collinear([k \in 1..3 |-> PyAt(anchors, snapshot[k].anchor_id)])

\* C21: an iteration of poll_distances that fails (the GET raised, its
\* status was not 200, the snapshot did not hold exactly 3 readings, an
\* anchor id was outside the list, the anchors were collinear, or any
\* exception was raised) leaves the star, its label, the circles, their
\* labels and the reference line as they were; and after every step the
\* thread is still in its while loop.
C21_FailedPollKeepsDisplay ==
    [][prog = "poll" =>
        /\ poll_thread'.running
        /\ (\/ poll_thread'.outcome # Some("200")
            \/ exc' # NoExc
            \/ SnapshotFails(latest_data)) => PollDisplay' = PollDisplay]_vars

\* After an iteration that drew an estimate, an iteration on a snapshot of
\* three collinear anchors has failed: the estimate and its three circles
\* are still shown and the thread is running.
C21_Witness ==
    /\ prog = "poll" /\ exc = AnchorsAligned /\ poll_thread.running
    /\ poll_thread.outcome = Some("200")
    /\ star_label # None /\ Len(circles) = 3

----------------------------------------------------------------------------
(* Further claims about the solver (SpecSolver) *)

\* The six orders of three (anchor, distance) pairs.
Orders == {q \in [1..3 -> 1..3] : \A i, j \in 1..3 : q[i] = q[j] => i = j}

\* C22: for any three anchors and any three distances, consistent or not,
\* trilateration_3anchors gives the same outcome for every order in which
\* the three (anchor, distance) pairs are passed: the same position for
\* anchors that are not collinear, the same ValueError for collinear ones.
C22_OrderIndependent ==
    (prog = "solver" /\ ret # None) =>
        /\ Raised(ret[1].manager) <=> Collinear(args.p)
        /\ \A q \in Orders :
              trilateration_3anchors(args.p[q[1]], args.d[q[1]],
                                     args.p[q[2]], args.d[q[2]],
                                     args.p[q[3]], args.d[q[3]])
                  = ret[1].manager

\* A call on three different distances that fit no common point, on
\* anchors that are not collinear, has returned a position.
C22_Witness ==
    /\ prog = "solver" /\ ret # None /\ args.truth = None
    /\ args.d = <<0, Metres(1), Metres(2)>>
    /\ ~Collinear(args.p) /\ ~Raised(ret[1].manager)
    /\ args.p[1] # args.p[2] /\ args.p[2] # args.p[3] /\ args.p[1] # args.p[3]

----------------------------------------------------------------------------
(* Further claims about the error experiments (SpecSim) *)

\* The denominator A * E - B * D the solver computes from three anchors.
Denominator(ps) ==
    (2 * (ps[2][1] - ps[1][1])) * (2 * (ps[3][2] - ps[1][2]))
        - (2 * (ps[2][2] - ps[1][2])) * (2 * (ps[3][1] - ps[1][1]))

\* C23: in a run of simulate_error or simulate_errors a trial fails exactly
\* when the denominator of the anchors is 0, whatever its noisy distances
\* are; so in one run either every trial so far has failed or none has.
\* On the anchors of the files (denominator 72 in metres, 4 * 72 in half
\* metres) no trial fails, simulate_error returns as many errors as there
\* were trials, and with at least one trial simulate_errors returns no NaN.
C23_FailureDependsOnAnchorsOnly ==
    (prog = "boxplot" \/ prog = "line") =>
        /\ \A k \in 1..Len(log) : Raised(log[k]) <=> Denominator(anchors) = 0
        /\ NumFailed(log) = 0 \/ NumFailed(log) = Len(log)
        /\ anchors = RefAnchors =>
              /\ Denominator(anchors) = 4 * 72
              /\ NumFailed(log) = 0
              /\ (prog = "boxplot" /\ ret # None) => Len(ret[1]) = trials
              /\ (prog = "line" /\ ret # None /\ trials > 0) =>
                    \A i \in 1..Len(ret[1]) : ret[1][i] # NaN

\* A sweep on the anchors of the file has returned after four trials, none
\* of which failed, the last of them on a negative noisy distance.
C23_Witness ==
    /\ prog = "line" /\ ret # None /\ anchors = RefAnchors
    /\ trials = 2 /\ noise_levels = <<0, 10>>
    /\ Len(log) = 4 /\ NumFailed(log) = 0
    /\ \E i \in 1..3 : SNegative(noisy[i])

\* A run of simulate_error on the collinear layout in which both trials
\* failed, and one on the anchors of the file that returned two errors.
C23_AllFail ==
    /\ prog = "boxplot" /\ ret # None /\ anchors = AlignedExample
    /\ trials = 2 /\ NumFailed(log) = 2

C23_NoneFails ==
    /\ prog = "boxplot" /\ ret # None /\ anchors = RefAnchors
    /\ trials = 2 /\ Len(ret[1]) = 2

----------------------------------------------------------------------------
(* Further claims about the anchor manager (Spec) *)

\* What a motion event leaves alone: the number of anchors, the distances
\* and every anchor but the selected one.
MotionMovesSelectedOnly ==
    on_motion =>
        /\ Len(anchors') = Len(anchors)
        /\ distances' = distances
        /\ \A i \in 1..Len(anchors) :
              (selected_index = None \/ i # selected_index[1] + 1)
                  => anchors'[i] = anchors[i]

\* C24 as stated: after every press, release, motion, add_anchor and
\* remove_anchor event selected_index is None or an index into anchors, no
\* motion event raises IndexError, and a motion event changes the selected
\* anchor only.
C24_SelectedIndexValid ==
    [][prog = "manager" =>
        /\ \/ selected_index' = None
           \/ 0 <= selected_index'[1] /\ selected_index'[1] < Len(anchors')
        /\ exc'.type # "IndexError"
        /\ MotionMovesSelectedOnly]_vars

====
